---- MODULE Spec2Model ----
(***************************************************************************)
(* Model of the SARIF normalization engine of DM-base                      *)
(* (src/lib/normalize-sarif.ts, reproduced in src/README.md lines 41-490). *)
(*                                                                         *)
(* Conventions                                                             *)
(*   - A JavaScript string is a sequence of one-character strings, so that *)
(*     toLowerCase, join, template literals and JSON.stringify are         *)
(*     computed character by character.                                    *)
(*   - An optional value (a field that may be undefined) is a sequence of  *)
(*     length 0 (undefined) or 1 (the value).                              *)
(*   - A thrown Error is a record [threw |-> TRUE, ...]; what a function   *)
(*     returns normally has threw |-> FALSE.                               *)
(***************************************************************************)
EXTENDS Integers, Sequences, FiniteSets, TLC

(***************************************************************************)
(* Bounds of the model.                                                    *)
(***************************************************************************)
\* the most runs an input document holds
MaxRuns == 2

\* the most results an input document holds, over all its runs
MaxResults == 2

(***************************************************************************)
(* Optional values and the ?? operator.                                    *)
(***************************************************************************)
None == <<>>

Some(v) == <<v>>

IsSome(o) == Len(o) > 0

IsNone(o) == Len(o) = 0

\* a ?? b where b is optional too: the chain a ?? b ?? c nests.
Coalesce(a, b) == IF IsSome(a) THEN a ELSE b

\* a ?? d where d is a plain default: the end of a chain.
OrElse(a, d) == IF IsSome(a) THEN a[1] ELSE d

(***************************************************************************)
(* Strings.                                                                *)
(***************************************************************************)
UpperLetters ==
  << "A", "B", "C", "D", "E", "F", "G", "H", "I", "J", "K", "L", "M",
     "N", "O", "P", "Q", "R", "S", "T", "U", "V", "W", "X", "Y", "Z" >>

LowerLetters ==
  << "a", "b", "c", "d", "e", "f", "g", "h", "i", "j", "k", "l", "m",
     "n", "o", "p", "q", "r", "s", "t", "u", "v", "w", "x", "y", "z" >>

\* String.prototype.toLowerCase on one character.
LowerChar(c) ==
  IF \E i \in 1..Len(UpperLetters) : UpperLetters[i] = c
    THEN LowerLetters[CHOOSE i \in 1..Len(UpperLetters) : UpperLetters[i] = c]
    ELSE c

\* String.prototype.toLowerCase.
toLowerCase(s) == [i \in 1..Len(s) |-> LowerChar(s[i])]

Digits == << "0", "1", "2", "3", "4", "5", "6", "7", "8", "9" >>

RECURSIVE NatToString(_)
\* String(n) and `${n}` for a non-negative integer n.
NatToString(n) ==
  IF n < 10 THEN << Digits[n + 1] >>
  ELSE NatToString(n \div 10) \o << Digits[(n % 10) + 1] >>

\* String(n) for an integer n.
NumberToString(n) == IF n < 0 THEN << "-" >> \o NatToString(0 - n) ELSE NatToString(n)

RECURSIVE Join(_, _)
\* Array.prototype.join: the strings of parts with sep between them.
Join(parts, sep) ==
  IF Len(parts) = 0 THEN << >>
  ELSE IF Len(parts) = 1 THEN parts[1]
  ELSE parts[1] \o sep \o Join(Tail(parts), sep)

\* One character inside a JSON string literal: the quote and the backslash
\* are escaped.
JsonEscapeChar(c) ==
  IF c = "\"" THEN << "\\", "\"" >>
  ELSE IF c = "\\" THEN << "\\", "\\" >>
  ELSE << c >>

RECURSIVE JsonEscape(_)
JsonEscape(s) ==
  IF Len(s) = 0 THEN << >> ELSE JsonEscapeChar(s[1]) \o JsonEscape(Tail(s))

\* JSON.stringify of one string.
JsonStringifyString(s) == << "\"" >> \o JsonEscape(s) \o << "\"" >>

\* JSON.stringify of an array of strings.
JsonStringifyStrings(a) ==
  << "[" >> \o Join([i \in 1..Len(a) |-> JsonStringifyString(a[i])], << "," >>) \o << "]" >>

\* createHash("sha256").update(s).digest("hex"), taken as collision-free:
\* the digest stands for exactly one pre-image.
Sha256Hex(s) == [sha256 |-> s]

\* Array.from(new Set(a)): the first occurrence of every element, in order.
RECURSIVE Distinct(_)
Distinct(a) ==
  IF Len(a) = 0 THEN << >>
  ELSE LET front == Distinct(SubSeq(a, 1, Len(a) - 1))
           last == a[Len(a)]
       IN  IF \E i \in 1..Len(front) : front[i] = last THEN front
           ELSE Append(front, last)

\* The concatenation of a sequence of sequences.
RECURSIVE Flatten(_)
Flatten(ss) == IF Len(ss) = 0 THEN << >> ELSE ss[1] \o Flatten(Tail(ss))

RECURSIVE SumSeq(_)
SumSeq(ns) == IF Len(ns) = 0 THEN 0 ELSE ns[1] + SumSeq(Tail(ns))

(***************************************************************************)
(* The characters and strings the inputs are built from.                   *)
(***************************************************************************)
sError == << "e", "r", "r", "o", "r" >>

sWarning == << "w", "a", "r", "n", "i", "n", "g" >>

sNote == << "n", "o", "t", "e" >>

sNoneLevel == << "n", "o", "n", "e" >>

sPass == << "p", "a", "s", "s" >>

sOpen == << "o", "p", "e", "n" >>

sReview == << "r", "e", "v", "i", "e", "w" >>

sInformational ==
  << "i", "n", "f", "o", "r", "m", "a", "t", "i", "o", "n", "a", "l" >>

sUnknown == << "u", "n", "k", "n", "o", "w", "n" >>

\* Written levels that are not canonical as they stand.
sERROR == << "E", "R", "R", "O", "R" >>

sErrorCapital == << "E", "r", "r", "o", "r" >>

sWarningCapital == << "W", "a", "r", "n", "i", "n", "g" >>

sBanana == << "b", "a", "n", "a", "n", "a" >>

sEmpty == << >>

sVersion == << "2", ".", "1", ".", "0" >>

(***************************************************************************)
(* The input document as the caller holds it, before validation.  A field  *)
(* the schema requires is optional here, so that a document without it can *)
(* be given.                                                               *)
(***************************************************************************)
\* In a message, a location, a fix and a result, extra is the value of a key
\* that the schemas do not declare.
\* { } as a message.
EmptyMessage == [text |-> None, markdown |-> None, extra |-> None]

TextMessage(t) == [text |-> Some(t), markdown |-> None, extra |-> None]

MarkdownMessage(m) == [text |-> None, markdown |-> Some(m), extra |-> None]

\* A Record<string, string> of fingerprints: the two keys buildDedupeKey
\* reads and one it does not.
NoFingerprints ==
  [primaryLocationFingerprint |-> None, primaryLocationFingerprintV2 |-> None,
   other |-> None]

\* properties.tags before coercion: undefined, a string, an array whose
\* elements are strings (Some) or not strings (None), or another value.
\* ref is the identity of the array when it is an object the caller holds
\* (1, 2, ...), and 0 otherwise.
NoTags == [t |-> "undefined", s |-> sEmpty, a |-> << >>, ref |-> 0]

StringTags(s) == [t |-> "string", s |-> s, a |-> << >>, ref |-> 0]

ArrayTags(a, ref) == [t |-> "array", s |-> sEmpty, a |-> a, ref |-> ref]

OtherTags == [t |-> "other", s |-> sEmpty, a |-> << >>, ref |-> 0]

\* A properties bag: its tags and one custom key.
EmptyProperties == [tags |-> NoTags, custom |-> None]

EmptyRegion ==
  [startLine |-> None, startColumn |-> None, endLine |-> None,
   endColumn |-> None, snippet |-> None]

EmptyArtifactLocation == [uri |-> None, uriBaseId |-> None]

EmptyPhysicalLocation == [artifactLocation |-> None, region |-> None]

EmptyLocation == [physicalLocation |-> None, message |-> None, extra |-> None]

\* A location with an artifact uri and a start line.
FileLocation(uri, line) ==
  [physicalLocation |->
     Some([artifactLocation |-> Some([uri |-> Some(uri), uriBaseId |-> None]),
           region |-> Some([EmptyRegion EXCEPT !.startLine = Some(line)])]),
   message |-> None, extra |-> None]

\* A fix with the given optional description.
Fix(description) == [description |-> description, extra |-> None]

\* A rule with every optional field absent.
BareRule(id) ==
  [id |-> Some(id), name |-> None, shortDescription |-> None,
   fullDescription |-> None, help |-> None, helpUri |-> None,
   properties |-> None, defaultConfiguration |-> None]

NamedRule(id, name) == [BareRule(id) EXCEPT !.name = Some(name)]

\* A result with every optional field absent and { } as its message.
BareResult ==
  [ruleId |-> None, ruleIndex |-> None, message |-> Some(EmptyMessage),
   level |-> None, kind |-> None, baselineState |-> None, locations |-> None,
   relatedLocations |-> None, fixes |-> None, fingerprints |-> None,
   partialFingerprints |-> None, properties |-> None, id |-> None,
   guid |-> None, extra |-> None]

Driver(name, rules) ==
  [name |-> Some(name), semanticVersion |-> None, version |-> None,
   informationUri |-> None, rules |-> rules]

Run(driver, results) ==
  [tool |-> Some([driver |-> Some(driver)]), results |-> results]

Document(version, runs) == [version |-> version, runs |-> runs]

(***************************************************************************)
(* A JavaScript value given as input: undefined, null, a string (a text),  *)
(* a number, or an object (kept in doc).                                   *)
(***************************************************************************)
JsUndefined == [t |-> "undefined", s |-> "", doc |-> None]

JsNull == [t |-> "null", s |-> "", doc |-> None]

JsString(text) == [t |-> "string", s |-> text, doc |-> None]

JsNumber == [t |-> "number", s |-> "", doc |-> None]

JsObject(doc) == [t |-> "object", s |-> "", doc |-> Some(doc)]

(***************************************************************************)
(* JSON.parse, on the texts of the model.                                  *)
(***************************************************************************)
\* The one-run document some of the texts below denote.
TextRunDocument ==
  Document(Some(sVersion),
           Some(<< Run(Driver(<< "S" >>, None),
                       Some(<< [BareResult EXCEPT
                                  !.message = Some(TextMessage(<< "m" >>))] >>)) >>))

Thrown(name, message) ==
  [threw |-> TRUE, error |-> [name |-> name, message |-> message], value |-> None]

Returned(v) ==
  [threw |-> FALSE, error |-> [name |-> "", message |-> << >>], value |-> Some(v)]

\* JSON.parse(text): the value a text denotes, or a SyntaxError.
JSONparse(text) ==
  CASE text = "null" -> Returned(JsNull)
    [] text = "42" -> Returned(JsNumber)
    [] text = "{}" -> Returned(JsObject(Document(None, None)))
    [] text = "{\"version\":\"2.1.0\",\"runs\":[]}" ->
         Returned(JsObject(Document(Some(sVersion), Some(<< >>))))
    [] text = "{\"version\":\"2.1.0\",\"runs\":[{\"tool\":{\"driver\":{\"name\":\"S\"}},\"results\":[{\"message\":{\"text\":\"m\"}}]}]}" ->
         Returned(JsObject(TextRunDocument))
    [] text = "" -> Thrown("SyntaxError", << "Unexpected end of JSON input" >>)
    [] OTHER -> Thrown("SyntaxError", << "Unexpected token" >>)

(***************************************************************************)
(* The zod schemas: the issues safeParse reports and the data it returns.  *)
(***************************************************************************)
Issue(path, message) == [path |-> path, message |-> message]

\* The issue of a required key that is absent.
Required(o, path) == IF IsNone(o) THEN << Issue(path, << "Required" >>) >> ELSE << >>

\* RuleSchema with id optional.
RuleSchemaOptionalId(rule, path) == << >>

\* RuleSchema: id is a string.
RuleSchema(rule, path) == Required(rule.id, Append(path, "id"))

\* DriverSchema: name is a string, rules an optional array of RuleSchema.
DriverSchema(driver, path) ==
  Required(driver.name, Append(path, "name"))
  \o (IF IsNone(driver.rules) THEN << >>
      ELSE LET rules == driver.rules[1]
           IN  Flatten([k \in 1..Len(rules) |->
                 RuleSchema(rules[k], path \o << "rules", ToString(k - 1) >>)]))

\* ToolSchema: driver is a DriverSchema.
ToolSchema(tool, path) ==
  IF IsNone(tool.driver) THEN Required(tool.driver, Append(path, "driver"))
  ELSE DriverSchema(tool.driver[1], Append(path, "driver"))

\* ResultSchema: message is a MessageSchema, every other key is optional.
ResultSchema(result, path) == Required(result.message, Append(path, "message"))

\* RunSchema: tool is a ToolSchema, results an array of ResultSchema.
RunSchema(run, path) ==
  (IF IsNone(run.tool) THEN Required(run.tool, Append(path, "tool"))
   ELSE ToolSchema(run.tool[1], Append(path, "tool")))
  \o (IF IsNone(run.results) THEN << >>
      ELSE LET results == run.results[1]
           IN  Flatten([j \in 1..Len(results) |->
                 ResultSchema(results[j], path \o << "results", ToString(j - 1) >>)]))

\* SarifSchema: the issues of a payload, in the order zod reports them.
SarifSchemaIssues(payload) ==
  IF payload.t = "undefined" THEN << Issue(<< >>, << "Required" >>) >>
  ELSE IF payload.t # "object"
    THEN << Issue(<< >>, << "Expected object, received ", payload.t >>) >>
  ELSE LET doc == payload.doc[1]
       IN  Required(doc.version, << "version" >>)
           \o (IF IsNone(doc.runs) THEN Required(doc.runs, << "runs" >>)
               ELSE LET runs == doc.runs[1]
                    IN  Flatten([i \in 1..Len(runs) |->
                          RunSchema(runs[i], << "runs", ToString(i - 1) >>)]))

\* z.any()'s output: the value it is given, the same object.
ZodAny(value) == value

\* MessageSchema's output: a z.object without passthrough() drops the keys
\* it does not declare.
MessageSchemaData(message) == [message EXCEPT !.extra = None]

\* LocationSchema's output: undeclared keys are dropped, in the location
\* and in its message.
LocationSchemaData(location) ==
  [location EXCEPT
     !.message = IF IsNone(@) THEN None ELSE Some(MessageSchemaData(@[1])),
     !.extra = None]

\* z.array(LocationSchema).optional()'s output.
LocationsSchemaData(locations) ==
  IF IsNone(locations) THEN None
  ELSE Some([k \in 1..Len(locations[1]) |-> LocationSchemaData(locations[1][k])])

\* FixSchema's output: undeclared keys are dropped, in the fix and in its
\* description.
FixSchemaData(fix) ==
  [fix EXCEPT
     !.description = IF IsNone(@) THEN None ELSE Some(MessageSchemaData(@[1])),
     !.extra = None]

\* z.record(z.any())'s output: a new record of the values z.any() returns.
RecordOfAnyData(properties) == [properties EXCEPT !.tags = ZodAny(@)]

\* ResultSchema's output: a new object that keeps the keys the schema does
\* not declare (passthrough()); message, locations, relatedLocations and
\* fixes are the outputs of their schemas; properties is a new record of
\* the values z.any() returns.
ResultSchemaData(result) ==
  [result EXCEPT
     !.message = Some(MessageSchemaData(@[1])),
     !.locations = LocationsSchemaData(@),
     !.relatedLocations = LocationsSchemaData(@),
     !.fixes =
        IF IsNone(@) THEN None
        ELSE Some([k \in 1..Len(@[1]) |-> FixSchemaData(@[1][k])]),
     !.properties =
        IF IsNone(@) THEN None
        ELSE Some(RecordOfAnyData(@[1]))]

\* RunSchema's output: results defaults to [].
RunSchemaData(run) ==
  LET results == OrElse(run.results, << >>)
  IN  [run EXCEPT
         !.results = Some([j \in 1..Len(results) |-> ResultSchemaData(results[j])])]

\* SarifSchema's output for a payload without issues.
SarifSchemaData(payload) ==
  LET doc == payload.doc[1]
      runs == doc.runs[1]
  IN  [version |-> doc.version,
       runs |-> Some([i \in 1..Len(runs) |-> RunSchemaData(runs[i])])]

\* SarifSchema.safeParse(payload).
safeParse(payload) ==
  LET issues == SarifSchemaIssues(payload)
  IN  IF Len(issues) = 0
        THEN [success |-> TRUE, issues |-> issues, data |-> Some(SarifSchemaData(payload))]
        ELSE [success |-> FALSE, issues |-> issues, data |-> None]

\* FormatIssue without a name for the empty path.
FormatIssueWithoutRoot(issue) ==
  Join([k \in 1..Len(issue.path) |-> << issue.path[k] >>], << "." >>)
  \o << " " >> \o issue.message

\* `${issue.path.join(".") || "<root>"} ${issue.message}`
FormatIssue(issue) ==
  LET joined == Join([k \in 1..Len(issue.path) |-> << issue.path[k] >>], << "." >>)
  IN  (IF Len(joined) = 0 THEN << "<root>" >> ELSE joined) \o << " " >> \o issue.message

\* parseSarif with a slip: a text that does not deserialize is taken as a
\* document without runs instead of being an error.
parseSarifLenient(input) ==
  IF input.t \in {"null", "undefined"}
    THEN Thrown("Error", << "SARIF payload is missing" >>)
  ELSE LET parsed == IF input.t = "string" THEN JSONparse(input.s) ELSE Returned(input)
           payload == IF parsed.threw
                        THEN JsObject(Document(Some(sEmpty), Some(<< >>)))
                        ELSE parsed.value[1]
           result == safeParse(payload)
       IN  IF ~result.success
             THEN Thrown("Error",
                    << "SARIF format is invalid: " >>
                    \o Join([k \in 1..Len(result.issues) |->
                               FormatIssue(result.issues[k])], << ", " >>))
             ELSE Returned(result.data[1])

(***************************************************************************)
(* parseSarif.  The texts of its two errors are given in English: the      *)
(* first is thrown for a missing payload, the second for an invalid one.   *)
(***************************************************************************)
parseSarif(input) ==
  IF input.t \in {"null", "undefined"}
    THEN Thrown("Error", << "SARIF payload is missing" >>)
  ELSE LET parsed == IF input.t = "string" THEN JSONparse(input.s) ELSE Returned(input)
       IN  IF parsed.threw THEN parsed
           ELSE LET result == safeParse(parsed.value[1])
                IN  IF ~result.success
                      THEN Thrown("Error",
                             << "SARIF format is invalid: " >>
                             \o Join([k \in 1..Len(result.issues) |->
                                        FormatIssue(result.issues[k])], << ", " >>))
                      ELSE Returned(result.data[1])

(***************************************************************************)
(* The helpers of normalizeSarif.                                          *)
(***************************************************************************)
\* A string is truthy when it is not empty; undefined is falsy.
Truthy(o) == IsSome(o) /\ Len(o[1]) > 0

\* Map.prototype.has, on a map kept as its entries in insertion order.
MapHas(map, key) == \E i \in 1..Len(map) : map[i].key = key

\* Map.prototype.get of a key the map has.
MapGet(map, key) == map[CHOOSE i \in 1..Len(map) : map[i].key = key].value

\* Map.prototype.set: a key the map has keeps its position and takes the
\* new value; a new key goes to the end.
MapSet(map, key, value) ==
  IF MapHas(map, key)
    THEN [i \in 1..Len(map) |->
            IF map[i].key = key THEN [key |-> key, value |-> value] ELSE map[i]]
    ELSE Append(map, [key |-> key, value |-> value])

\* A lookup structure that keeps one entry per rule of the list, in the
\* order of the list, instead of one per id.
buildRuleMapOfList(rules) ==
  LET identified == SelectSeq(rules, LAMBDA rule : Truthy(rule.id))
  IN  [k \in 1..Len(identified) |->
         [key |-> identified[k].id[1], value |-> identified[k]]]

RECURSIVE buildRuleMap(_)
\* rules.forEach(rule => { if (rule.id) map.set(rule.id, rule) })
buildRuleMap(rules) ==
  IF Len(rules) = 0 THEN << >>
  ELSE LET map == buildRuleMap(SubSeq(rules, 1, Len(rules) - 1))
           rule == rules[Len(rules)]
       IN  IF Truthy(rule.id) THEN MapSet(map, rule.id[1], rule) ELSE map

\* findRuleForResult with a slip: a ruleIndex within range is looked at
\* before the ruleId.
findRuleByIndexFirst(result, ruleMap) ==
  IF /\ IsSome(result.ruleIndex)
     /\ result.ruleIndex[1] >= 0
     /\ result.ruleIndex[1] < Len(ruleMap)
    THEN Some(ruleMap[result.ruleIndex[1] + 1].value)
  ELSE IF Truthy(result.ruleId) /\ MapHas(ruleMap, result.ruleId[1])
    THEN Some(MapGet(ruleMap, result.ruleId[1]))
  ELSE None

\* The rule of a result, or undefined.
findRuleForResult(result, ruleMap) ==
  IF Truthy(result.ruleId) /\ MapHas(ruleMap, result.ruleId[1])
    THEN Some(MapGet(ruleMap, result.ruleId[1]))
  ELSE IF /\ IsSome(result.ruleIndex)
          /\ result.ruleIndex[1] >= 0
          /\ result.ruleIndex[1] < Len(ruleMap)
    THEN Some(ruleMap[result.ruleIndex[1] + 1].value)
  ELSE None

\* The nine severities, in the order of the allowed array.
allowed ==
  << sError, sWarning, sNote, sNoneLevel, sPass, sOpen, sReview,
     sInformational, sUnknown >>

\* normalizeSeverity with a slip: the level is compared as written, without
\* toLowerCase.
normalizeSeverityAsWritten(level) ==
  LET normalized == OrElse(level, sUnknown)
  IN  IF \E i \in 1..Len(allowed) : allowed[i] = normalized
        THEN normalized ELSE sUnknown

normalizeSeverity(level) ==
  LET normalized == toLowerCase(OrElse(level, sUnknown))
  IN  IF \E i \in 1..Len(allowed) : allowed[i] = normalized
        THEN normalized ELSE sUnknown

\* pickMessage with a slip: || in the place of ??, so that an empty text
\* gives way to the markdown.
pickMessageTruthy(message) ==
  IF IsNone(message) THEN sEmpty
  ELSE IF Truthy(message[1].text) THEN message[1].text[1]
  ELSE IF Truthy(message[1].markdown) THEN message[1].markdown[1]
  ELSE sEmpty

\* message is optional: a message, or undefined.
pickMessage(message) ==
  IF IsNone(message) THEN sEmpty
  ELSE OrElse(Coalesce(message[1].text, message[1].markdown), sEmpty)

\* pickLocation with a slip: the first location that has a physicalLocation
\* is taken, instead of the first location.
pickLocationOfFirstPhysical(result) ==
  LET located == SelectSeq(OrElse(result.locations, << >>),
                           LAMBDA l : IsSome(l.physicalLocation))
      location == IF Len(located) > 0 THEN located[1].physicalLocation ELSE None
  IN  IF IsNone(location) THEN None
      ELSE LET artifact == location[1].artifactLocation
               region == location[1].region
           IN  Some([file |-> IF IsSome(artifact) THEN artifact[1].uri ELSE None,
                     uriBaseId |-> IF IsSome(artifact) THEN artifact[1].uriBaseId ELSE None,
                     startLine |-> IF IsSome(region) THEN region[1].startLine ELSE None,
                     startColumn |-> IF IsSome(region) THEN region[1].startColumn ELSE None,
                     endLine |-> IF IsSome(region) THEN region[1].endLine ELSE None,
                     endColumn |-> IF IsSome(region) THEN region[1].endColumn ELSE None,
                     snippet |-> IF IsSome(region) /\ IsSome(region[1].snippet)
                                   THEN region[1].snippet[1].text ELSE None])

\* result.locations?.[0]?.physicalLocation, normalized.
pickLocation(result) ==
  LET first == IF IsSome(result.locations) /\ Len(result.locations[1]) > 0
                 THEN Some(result.locations[1][1]) ELSE None
      location == IF IsSome(first) THEN first[1].physicalLocation ELSE None
  IN  IF IsNone(location) THEN None
      ELSE LET artifact == location[1].artifactLocation
               region == location[1].region
           IN  Some([file |-> IF IsSome(artifact) THEN artifact[1].uri ELSE None,
                     uriBaseId |-> IF IsSome(artifact) THEN artifact[1].uriBaseId ELSE None,
                     startLine |-> IF IsSome(region) THEN region[1].startLine ELSE None,
                     startColumn |-> IF IsSome(region) THEN region[1].startColumn ELSE None,
                     endLine |-> IF IsSome(region) THEN region[1].endLine ELSE None,
                     endColumn |-> IF IsSome(region) THEN region[1].endColumn ELSE None,
                     snippet |-> IF IsSome(region) /\ IsSome(region[1].snippet)
                                   THEN region[1].snippet[1].text ELSE None])

\* pickRemediation with a slip: the first fix whose description gives a
\* text is taken, instead of the first fix.
pickRemediationOfAnyFix(result, rule) ==
  LET described == SelectSeq(OrElse(result.fixes, << >>),
                             LAMBDA f : Len(pickMessage(f.description)) > 0)
      fromFix == IF Len(described) > 0 THEN pickMessage(described[1].description)
                 ELSE sEmpty
      fromRule == pickMessage(IF IsSome(rule) THEN rule[1].help ELSE None)
  IN  IF Len(fromFix) > 0 THEN Some(fromFix)
      ELSE IF Len(fromRule) > 0 THEN Some(fromRule)
      ELSE None

\* rule is optional: the rule found for the result, or undefined.
pickRemediation(result, rule) ==
  LET fix == IF IsSome(result.fixes) /\ Len(result.fixes[1]) > 0
               THEN Some(result.fixes[1][1]) ELSE None
      fromFix == pickMessage(IF IsSome(fix) THEN fix[1].description ELSE None)
      fromRule == pickMessage(IF IsSome(rule) THEN rule[1].help ELSE None)
  IN  IF Len(fromFix) > 0 THEN Some(fromFix)
      ELSE IF Len(fromRule) > 0 THEN Some(fromRule)
      ELSE None

\* extractTags with a slip: a bare string gives no tag.
extractTagsOfArrays(source) ==
  IF source.t = "array"
    THEN LET strings == SelectSeq(source.a, IsSome)
         IN  [k \in 1..Len(strings) |-> strings[k][1]]
  ELSE << >>

\* The tags of a properties.tags value.
extractTags(source) ==
  IF source.t = "array"
    THEN LET strings == SelectSeq(source.a, IsSome)
         IN  [k \in 1..Len(strings) |-> strings[k][1]]
  ELSE IF source.t = "string" THEN << source.s >>
  ELSE << >>

\* value?.properties?.tags of an optional result or rule.
TagsOf(o) ==
  IF IsSome(o) /\ IsSome(o[1].properties) THEN o[1].properties[1].tags ELSE NoTags

\* The parts buildDedupeKey joins, but for the fingerprints.
DedupeParts(input) ==
  LET startLine == IF IsSome(input.location) THEN input.location[1].startLine ELSE None
      startColumn == IF IsSome(input.location) THEN input.location[1].startColumn ELSE None
  IN  << OrElse(input.result.ruleId, sUnknown),
         input.severity,
         input.message,
         OrElse(IF IsSome(input.location) THEN input.location[1].file ELSE None, sEmpty),
         IF IsSome(startLine) THEN NumberToString(startLine[1]) ELSE sEmpty,
         IF IsSome(startColumn) THEN NumberToString(startColumn[1]) ELSE sEmpty >>

\* buildDedupeKey with a slip: the id of the result is hashed too.
buildDedupeKeyWithId(input) ==
  LET fingerprints == OrElse(input.result.fingerprints, NoFingerprints)
      candidateFingerprints ==
        SelectSeq(<< input.partialFingerprints.primaryLocationFingerprint,
                     input.partialFingerprints.primaryLocationFingerprintV2,
                     fingerprints.primaryLocationFingerprint,
                     fingerprints.primaryLocationFingerprintV2 >>, Truthy)
      fingerprintPayload ==
        JsonStringifyStrings([k \in 1..Len(candidateFingerprints) |->
                                candidateFingerprints[k][1]])
      parts == << OrElse(input.result.id, sEmpty) >> \o DedupeParts(input)
               \o << fingerprintPayload >>
  IN  Sha256Hex(Join(parts, << ":", ":" >>))

\* buildDedupeKey with a slip: the fingerprints are not hashed.
buildDedupeKeyWithoutFingerprints(input) ==
  Sha256Hex(Join(DedupeParts(input), << ":", ":" >>))

\* buildDedupeKey with a slip: the values of fingerprints are taken before
\* those of partialFingerprints.
buildDedupeKeyFingerprintsFirst(input) ==
  LET fingerprints == OrElse(input.result.fingerprints, NoFingerprints)
      candidateFingerprints ==
        SelectSeq(<< fingerprints.primaryLocationFingerprint,
                     fingerprints.primaryLocationFingerprintV2,
                     input.partialFingerprints.primaryLocationFingerprint,
                     input.partialFingerprints.primaryLocationFingerprintV2 >>, Truthy)
      fingerprintPayload ==
        JsonStringifyStrings([k \in 1..Len(candidateFingerprints) |->
                                candidateFingerprints[k][1]])
      parts == DedupeParts(input) \o << fingerprintPayload >>
  IN  Sha256Hex(Join(parts, << ":", ":" >>))

\* input is { result, message, location, severity, partialFingerprints }.
buildDedupeKey(input) ==
  LET fingerprints == OrElse(input.result.fingerprints, NoFingerprints)
      candidateFingerprints ==
        SelectSeq(<< input.partialFingerprints.primaryLocationFingerprint,
                     input.partialFingerprints.primaryLocationFingerprintV2,
                     fingerprints.primaryLocationFingerprint,
                     fingerprints.primaryLocationFingerprintV2 >>, Truthy)
      fingerprintPayload ==
        JsonStringifyStrings([k \in 1..Len(candidateFingerprints) |->
                                candidateFingerprints[k][1]])
      parts == DedupeParts(input) \o << fingerprintPayload >>
  IN  Sha256Hex(Join(parts, << ":", ":" >>))

(***************************************************************************)
(* normalizeSarif                                                          *)
(***************************************************************************)
\* The level chain with the rule's default level before the result's level.
ChooseLevelRuleFirst(result, rule) ==
  LET defaultConfiguration ==
        IF IsSome(rule) THEN rule[1].defaultConfiguration ELSE None
      defaultLevel ==
        IF IsSome(defaultConfiguration) THEN defaultConfiguration[1].level ELSE None
      defaultSeverity ==
        IF IsSome(defaultConfiguration) THEN defaultConfiguration[1].severity ELSE None
  IN  OrElse(Coalesce(defaultLevel, Coalesce(result.level, defaultSeverity)), sUnknown)

\* result.level ?? rule?.defaultConfiguration?.level ??
\* rule?.defaultConfiguration?.severity ?? "unknown": the level given to
\* normalizeSeverity.  rule is optional.
ChooseLevel(result, rule) ==
  LET defaultConfiguration ==
        IF IsSome(rule) THEN rule[1].defaultConfiguration ELSE None
      defaultLevel ==
        IF IsSome(defaultConfiguration) THEN defaultConfiguration[1].level ELSE None
      defaultSeverity ==
        IF IsSome(defaultConfiguration) THEN defaultConfiguration[1].severity ELSE None
  IN  OrElse(Coalesce(result.level, Coalesce(defaultLevel, defaultSeverity)), sUnknown)

\* The synthesized id without the run index.
FindingIdWithoutRunIndex(result, runIndex, resultIndex) ==
  OrElse(Coalesce(result.id, result.guid),
         NatToString(resultIndex) \o << "-" >> \o OrElse(result.ruleId, sUnknown))

\* result.id ?? result.guid ?? `${runIndex}-${resultIndex}-${result.ruleId ?? "unknown"}`
FindingId(result, runIndex, resultIndex) ==
  OrElse(Coalesce(result.id, result.guid),
         NatToString(runIndex) \o << "-" >> \o NatToString(resultIndex)
         \o << "-" >> \o OrElse(result.ruleId, sUnknown))

\* The finding pushed for one result: the body of run.results.forEach.
NormalizeResult(run, runIndex, result, resultIndex) ==
  LET driver == run.tool[1].driver[1]
      ruleMap == buildRuleMap(OrElse(driver.rules, << >>))
      rule == findRuleForResult(result, ruleMap)
      severity == normalizeSeverity(Some(ChooseLevel(result, rule)))
      message == pickMessage(result.message)
      location == pickLocation(result)
      remediation == pickRemediation(result, rule)
      tags == Distinct(extractTags(TagsOf(Some(result))) \o extractTags(TagsOf(rule)))
      partialFingerprints == OrElse(result.partialFingerprints, NoFingerprints)
      dedupeKey ==
        buildDedupeKey([result |-> result, message |-> message,
                        location |-> location, severity |-> severity,
                        partialFingerprints |-> partialFingerprints])
      shortDescription == IF IsSome(rule) THEN rule[1].shortDescription ELSE None
      fullDescription == IF IsSome(rule) THEN rule[1].fullDescription ELSE None
  IN  [id |-> FindingId(result, runIndex, resultIndex),
       ruleId |->
         OrElse(Coalesce(IF IsSome(rule) THEN rule[1].id ELSE None, result.ruleId),
                sUnknown),
       ruleName |-> IF IsSome(rule) THEN rule[1].name ELSE None,
       ruleDescription |->
         Coalesce(IF IsSome(shortDescription) THEN shortDescription[1].text ELSE None,
         Coalesce(IF IsSome(shortDescription) THEN shortDescription[1].markdown ELSE None,
         Coalesce(IF IsSome(fullDescription) THEN fullDescription[1].text ELSE None,
                  IF IsSome(fullDescription) THEN fullDescription[1].markdown ELSE None))),
       severity |-> severity,
       message |-> message,
       tool |-> [name |-> OrElse(driver.name, sUnknown),
                 version |-> Coalesce(driver.semanticVersion, driver.version),
                 informationUri |-> driver.informationUri],
       location |-> location,
       remediation |-> remediation,
       helpUrl |-> IF IsSome(rule) THEN rule[1].helpUri ELSE None,
       tags |-> tags,
       partialFingerprints |-> partialFingerprints,
       fingerprints |-> OrElse(result.fingerprints, NoFingerprints),
       properties |-> OrElse(result.properties, EmptyProperties),
       dedupeKey |-> dedupeKey,
       rawResult |-> result]

\* NormalizeRun with a slip: a result whose message has neither text nor
\* markdown is skipped.
NormalizeRunSkippingEmpty(run, runIndex) ==
  LET results == SelectSeq(run.results[1],
                           LAMBDA r : Truthy(Coalesce(r.message[1].text, r.message[1].markdown)))
  IN  [j \in 1..Len(results) |-> NormalizeResult(run, runIndex, results[j], j - 1)]

\* The findings pushed for one run, in the order of its results.
NormalizeRun(run, runIndex) ==
  LET results == run.results[1]
  IN  [j \in 1..Len(results) |-> NormalizeResult(run, runIndex, results[j], j - 1)]

\* The findings pushed by sarifLog.runs.forEach, in the order of the runs.
NormalizeRuns(runs) == Flatten([i \in 1..Len(runs) |-> NormalizeRun(runs[i], i - 1)])

\* severityStats before the first result.
ZeroSeverityStats == [s \in {allowed[i] : i \in 1..Len(allowed)} |-> 0]

RECURSIVE CountSeveritiesButUnknown(_)
\* CountSeverities with a slip: a finding of severity "unknown" is not counted.
CountSeveritiesButUnknown(findings) ==
  IF Len(findings) = 0 THEN ZeroSeverityStats
  ELSE LET stats == CountSeveritiesButUnknown(SubSeq(findings, 1, Len(findings) - 1))
           severity == findings[Len(findings)].severity
       IN  IF severity = sUnknown THEN stats ELSE [stats EXCEPT ![severity] = @ + 1]

RECURSIVE CountSeverities(_)
\* severityStats[severity] += 1, once for each finding pushed.
CountSeverities(findings) ==
  IF Len(findings) = 0 THEN ZeroSeverityStats
  ELSE LET stats == CountSeverities(SubSeq(findings, 1, Len(findings) - 1))
           severity == findings[Len(findings)].severity
       IN  [stats EXCEPT ![severity] = @ + 1]

\* toolNames: the truthy driver names, each once, in the order of the runs.
CollectToolNames(runs) ==
  LET names == [i \in 1..Len(runs) |-> runs[i].tool[1].driver[1].name]
      truthy == SelectSeq(names, Truthy)
  IN  Distinct([k \in 1..Len(truthy) |-> truthy[k][1]])

\* normalizeSarif with a slip: the instant of the call is hashed into every
\* dedupeKey.
normalizeSarifStamping(input, options, now) ==
  LET parsed == parseSarif(input)
  IN  IF parsed.threw THEN parsed
      ELSE LET sarifLog == parsed.value[1]
               runs == sarifLog.runs[1]
               pushed == NormalizeRuns(runs)
               findings ==
                 [k \in 1..Len(pushed) |->
                    [pushed[k] EXCEPT
                       !.dedupeKey = Sha256Hex(@.sha256 \o << ":", ":" >> \o NatToString(now))]]
           IN  Returned(
                 [metadata |-> [sarifVersion |-> sarifLog.version[1],
                                toolNames |-> CollectToolNames(runs),
                                uploadedAt |-> now,
                                fileName |-> options.fileName],
                  stats |-> [totalFindings |-> Len(findings),
                             bySeverity |-> CountSeverities(findings)],
                  findings |-> findings])

\* normalizeSarif(input, options), called at the instant now.
normalizeSarif(input, options, now) ==
  LET parsed == parseSarif(input)
  IN  IF parsed.threw THEN parsed
      ELSE LET sarifLog == parsed.value[1]
               runs == sarifLog.runs[1]
               findings == NormalizeRuns(runs)
           IN  Returned(
                 [metadata |-> [sarifVersion |-> sarifLog.version[1],
                                toolNames |-> CollectToolNames(runs),
                                uploadedAt |-> now,
                                fileName |-> options.fileName],
                  stats |-> [totalFindings |-> Len(findings),
                             bySeverity |-> CountSeverities(findings)],
                  findings |-> findings])

(***************************************************************************)
(* The state: one caller holding an input and normalizing it twice.        *)
(***************************************************************************)
VARIABLES
  input,    \* the value given to normalizeSarif
  options,  \* the options given with it
  now,      \* the clock new Date() reads
  first,    \* what the first call returned or threw; None before it
  second,   \* what the second call, on the same input, returned or threw
  rows,     \* the rows of the table sarif_reports, in the order of insertion
  requests, \* the POST requests given to the persisting handler
  reports,         \* App: the state reports, newest first
  isLoading,       \* App: the state isLoading
  isUploading,     \* App: the state isUploading
  pageError,       \* App: the state error; None for null
  fetching,        \* App: the fetchReports request started at mount
  uploads,         \* App: the files given to processFile, in order
  stored,          \* the ids of the session's rows, in the order of insertion
  visibleColumns,  \* App: the state visibleColumns
  columnActions    \* the column actions done, each with the state it found

vars ==
  << input, options, now, first, second, rows, requests, reports, isLoading,
     isUploading, pageError, fetching, uploads, stored, visibleColumns,
     columnActions >>

\* The variables of the engine's callers and those of the persisting handler.
engineVars == << input, options, now, first, second >>

handlerVars == << rows, requests >>

\* The variables of the page: those of the reports and those of the columns.
reportVars ==
  << reports, isLoading, isUploading, pageError, fetching, uploads, stored >>

columnVars == << visibleColumns, columnActions >>

uiVars == << reportVars, columnVars >>

\* the last instant of the clock
MaxClock == 1

\* The first call of normalizeSarif(input, options), at some instant t.
Normalize ==
  /\ IsNone(first)
  /\ \E t \in now..MaxClock :
       /\ now' = t
       /\ first' = Some(normalizeSarif(input, options, t))
  /\ UNCHANGED << input, options, second, handlerVars, uiVars >>

\* A later call with the same input and options.
NormalizeAgain ==
  /\ IsSome(first)
  /\ IsNone(second)
  /\ \E t \in now..MaxClock :
       /\ now' = t
       /\ second' = Some(normalizeSarif(input, options, t))
  /\ UNCHANGED << input, options, first, handlerVars, uiVars >>

Next == Normalize \/ NormalizeAgain

\* No page is open: the variables of the page keep these values.
NoReports ==
  /\ reports = << >>
  /\ isLoading = FALSE
  /\ isUploading = FALSE
  /\ pageError = None
  /\ fetching = [pc |-> "settled", ok |-> FALSE, data |-> << >>]
  /\ uploads = << >>
  /\ stored = << >>

NoColumns ==
  /\ visibleColumns = << >>
  /\ columnActions = << >>

NoPage == NoReports /\ NoColumns

\* The state before the first call, for an input of the set inputs.
InitWith(inputs, optionses) ==
  /\ input \in inputs
  /\ options \in optionses
  /\ now = 0
  /\ first = None
  /\ second = None
  /\ rows = << >>
  /\ requests = << >>
  /\ NoPage

(***************************************************************************)
(* Input documents.                                                        *)
(***************************************************************************)
\* The sequences of at most n elements of S.
SeqsUpTo(S, n) == UNION {[1..k -> S] : k \in 0..n}

RECURSIVE RunSeqs(_, _, _, _)
\* The sequences of at most m runs whose drivers are in drivers and whose
\* results are in results, holding at most n results together.
RunSeqs(drivers, results, m, n) ==
  IF m = 0 THEN {<< >>}
  ELSE {<< >>} \cup
       UNION {
         UNION {
           { << Run(d, Some(rs)) >> \o rest :
               rest \in RunSeqs(drivers, results, m - 1, n - Len(rs)) } :
           rs \in SeqsUpTo(results, n) } :
         d \in drivers }

\* The valid documents over the given drivers and results.
Documents(drivers, results) ==
  { JsObject(Document(Some(sVersion), Some(runs))) :
      runs \in RunSeqs(drivers, results, MaxRuns, MaxResults) }

NoOptions == [fileName |-> None]

sRuleOne == << "R", "1" >>

sRuleTwo == << "R", "2" >>

sScanner == << "S" >>

sOtherScanner == << "T" >>

sMessage == << "m" >>

sMarkdown == << "*", "m", "*" >>

sFile == << "a", ".", "t", "s" >>

\* A rule with a default level.
LevelRule(id, level) ==
  [BareRule(id) EXCEPT
     !.defaultConfiguration = Some([level |-> Some(level), severity |-> None])]

(***************************************************************************)
(* Spec: every kind of input, valid or not.                                *)
(***************************************************************************)
CoreDrivers ==
  { Driver(sScanner, Some(<< LevelRule(sRuleOne, sWarning) >>)),
    Driver(sOtherScanner, None) }

CoreResults ==
  { BareResult,
    [BareResult EXCEPT !.level = Some(sERROR)],
    [BareResult EXCEPT !.ruleId = Some(sRuleOne),
                       !.message = Some(TextMessage(sMessage))] }

\* The texts given as input.
Texts ==
  { "", "{not-valid-json", "null", "42", "{}",
    "{\"version\":\"2.1.0\",\"runs\":[]}",
    "{\"version\":\"2.1.0\",\"runs\":[{\"tool\":{\"driver\":{\"name\":\"S\"}},\"results\":[{\"message\":{\"text\":\"m\"}}]}]}" }

\* Documents that lack a field the schema requires.
InvalidDocuments ==
  LET driver == Driver(sScanner, None)
      run == Run(driver, Some(<< BareResult >>))
  IN  { Document(None, Some(<< run >>)),
        Document(Some(sVersion), None),
        Document(None, None),
        Document(Some(sVersion), Some(<< [run EXCEPT !.tool = None] >>)),
        Document(Some(sVersion), Some(<< [run EXCEPT !.tool = Some([driver |-> None])] >>)),
        Document(Some(sVersion),
                 Some(<< Run([driver EXCEPT !.name = None], Some(<< BareResult >>)) >>)),
        Document(Some(sVersion),
                 Some(<< Run(driver, Some(<< BareResult,
                                             [BareResult EXCEPT !.message = None] >>)) >>)),
        Document(Some(sVersion),
                 Some(<< run,
                         Run(Driver(sScanner,
                                    Some(<< [BareRule(sRuleOne) EXCEPT !.id = None] >>)),
                             Some(<< >>)) >>)) }

\* Valid documents with a run that has no results key.
DocumentsWithoutResults ==
  { Document(Some(sVersion), Some(<< Run(Driver(sScanner, None), None) >>)),
    Document(Some(sVersion),
             Some(<< Run(Driver(sScanner, None), None),
                     Run(Driver(sOtherScanner, None), Some(<< BareResult >>)) >>)) }

CoreInputs ==
  { JsUndefined, JsNull, JsNumber }
  \cup { JsString(t) : t \in Texts }
  \cup { JsObject(d) : d \in InvalidDocuments \cup DocumentsWithoutResults }
  \cup Documents(CoreDrivers, CoreResults)

CoreOptions == { NoOptions, [fileName |-> Some(<< "r", ".", "s", "a", "r", "i", "f" >>)] }

Init == InitWith(CoreInputs, CoreOptions)

Spec == Init /\ [][Next]_vars

(***************************************************************************)
(* What the claims speak of.                                               *)
(***************************************************************************)
\* The calls made so far: what each returned or threw.
Calls == { c \in { first, second } : IsSome(c) }

\* The documents returned so far.
ReturnedDocuments == { c[1].value[1] : c \in { c \in Calls : ~c[1].threw } }

\* The value the schema is given: the input, or what its text denotes.
Payload == IF input.t = "string" THEN JSONparse(input.s) ELSE Returned(input)

\* The input is an object with a version, runs, a driver name in every run,
\* an id in every rule and a message in every result.
ValidInput ==
  /\ ~Payload.threw
  /\ Payload.value[1].t = "object"
  /\ LET doc == Payload.value[1].doc[1]
     IN  /\ IsSome(doc.version)
         /\ IsSome(doc.runs)
         /\ \A i \in 1..Len(doc.runs[1]) :
              LET run == doc.runs[1][i]
              IN  /\ IsSome(run.tool)
                  /\ IsSome(run.tool[1].driver)
                  /\ IsSome(run.tool[1].driver[1].name)
                  /\ \A k \in 1..Len(OrElse(run.tool[1].driver[1].rules, << >>)) :
                       IsSome(run.tool[1].driver[1].rules[1][k].id)
                  /\ \A j \in 1..Len(OrElse(run.results, << >>)) :
                       IsSome(run.results[1][j].message)

\* The runs of a valid input.
InputRuns == Payload.value[1].doc[1].runs[1]

\* The results of run i of a valid input.
InputResults(i) == OrElse(InputRuns[i].results, << >>)

\* The results of a valid input, run after run.
AllInputResults == Flatten([i \in 1..Len(InputRuns) |-> InputResults(i)])

\* The position, among the findings, of result j of run i (both from 1).
FindingIndex(i, j) == SumSeq([h \in 1..(i - 1) |-> Len(InputResults(h))]) + j

\* The sum of the nine counters of a bySeverity record.
SeveritySum(bySeverity) ==
  SumSeq([i \in 1..Len(allowed) |-> bySeverity[allowed[i]]])

\* C1: every returned document has stats.totalFindings = findings.length,
\* and its nine severity counters add up to findings.length.
C1_CountInvariant ==
  \A doc \in ReturnedDocuments :
    /\ doc.stats.totalFindings = Len(doc.findings)
    /\ SeveritySum(doc.stats.bySeverity) = Len(doc.findings)

\* C1 happens: a document with two findings of different severities was
\* returned.
C1_Witness ==
  \E doc \in ReturnedDocuments :
    /\ Len(doc.findings) = 2
    /\ doc.findings[1].severity # doc.findings[2].severity
    /\ doc.findings[1].severity = sUnknown

\* C2: a valid input gives one finding per result, in run order and then
\* in result order: finding k is made from the k-th result of the input.
C2_OneFindingPerResult ==
  ValidInput =>
    \A doc \in ReturnedDocuments :
      /\ Len(doc.findings) = SumSeq([i \in 1..Len(InputRuns) |-> Len(InputResults(i))])
      /\ [k \in 1..Len(doc.findings) |-> doc.findings[k].rawResult] = AllInputResults

\* C2 happens: two runs with one result each, the second result with every
\* optional field absent, were normalized.
C2_Witness ==
  /\ ValidInput
  /\ Len(InputRuns) = 2
  /\ Len(InputResults(1)) = 1
  /\ InputResults(1)[1] # BareResult
  /\ InputResults(2) = << BareResult >>
  /\ ReturnedDocuments # {}

\* C4: a call either throws and returns nothing, or returns a complete
\* document; it throws for null and undefined, for a text that does not
\* deserialize and for every input that fails the schema, and returns a
\* document only for a valid input, with a finding for each of its results.
C4_CompleteOrError ==
  \A c \in Calls :
    LET outcome == c[1]
    IN  /\ outcome.threw => IsNone(outcome.value)
        /\ input.t \in {"null", "undefined"} => outcome.threw
        /\ (input.t = "string" /\ input.s \in {"", "{not-valid-json"}) => outcome.threw
        /\ ~ValidInput => outcome.threw
        /\ ~outcome.threw =>
             /\ ValidInput
             /\ Len(outcome.value[1].findings) = Len(AllInputResults)
             /\ outcome.value[1].stats.totalFindings = Len(AllInputResults)

\* C4 happens: the text "{not-valid-json" was given and the call threw.
C4_Witness ==
  /\ input = JsString("{not-valid-json")
  /\ IsSome(first)
  /\ first[1].threw
  /\ first[1].error.name = "SyntaxError"

\* C5: two calls with the same input and options end the same way, and
\* when they return, their findings (order, dedupeKeys and all) and their
\* severity counters are the same; only metadata.uploadedAt may differ.
C5_Deterministic ==
  (IsSome(first) /\ IsSome(second)) =>
    /\ first[1].threw = second[1].threw
    /\ first[1].error = second[1].error
    /\ ~first[1].threw =>
         LET a == first[1].value[1]
             b == second[1].value[1]
         IN  /\ a.findings = b.findings
             /\ [k \in 1..Len(a.findings) |-> a.findings[k].dedupeKey]
                  = [k \in 1..Len(b.findings) |-> b.findings[k].dedupeKey]
             /\ a.stats = b.stats
             /\ [a.metadata EXCEPT !.uploadedAt = 0] = [b.metadata EXCEPT !.uploadedAt = 0]

\* C5 happens: the same input was normalized at two different instants and
\* both calls returned two findings.
C5_Witness ==
  /\ IsSome(first)
  /\ IsSome(second)
  /\ ~first[1].threw
  /\ ~second[1].threw
  /\ first[1].value[1].metadata.uploadedAt # second[1].value[1].metadata.uploadedAt
  /\ Len(first[1].value[1].findings) = 2

(***************************************************************************)
(* SpecSeverity: results whose level is written in several ways, with and  *)
(* without a rule that has a default level.                                *)
(***************************************************************************)
sNOTE == << "N", "O", "T", "E" >>

SeverityDrivers == { Driver(sScanner, Some(<< LevelRule(sRuleOne, sNOTE) >>)) }

\* The levels written on the results.
WrittenLevels == { sERROR, sErrorCapital, sError, sWarningCapital, sBanana, sEmpty }

SeverityResults ==
  { [BareResult EXCEPT !.level = Some(l)] : l \in WrittenLevels }
  \cup { [BareResult EXCEPT !.ruleId = Some(sRuleOne)] }

InitSeverity == InitWith(Documents(SeverityDrivers, SeverityResults), { NoOptions })

\* One call of normalizeSarif on each input.
SpecSeverity == InitSeverity /\ [][Normalize]_vars

\* The letters a and b are the same letter, whatever their case.
SameLetter(a, b) ==
  \/ a = b
  \/ \E i \in 1..Len(UpperLetters) :
       {a, b} \subseteq {UpperLetters[i], LowerLetters[i]}

\* The strings a and b are the same but for the case of their letters.
EqualIgnoringCase(a, b) ==
  /\ Len(a) = Len(b)
  /\ \A i \in 1..Len(a) : SameLetter(a[i], b[i])

\* The nine canonical severities.
CanonicalSeverities == {allowed[i] : i \in 1..Len(allowed)}

\* C3: every finding's severity is one of the nine canonical values; when
\* the result has a level, the severity is the canonical value that level
\* spells in any case ("ERROR", "Error" and "error" give "error"), and
\* "unknown" when it spells none.
C3_SeverityClosure ==
  \A doc \in ReturnedDocuments :
    \A k \in 1..Len(doc.findings) :
      LET finding == doc.findings[k]
          level == finding.rawResult.level
      IN  /\ finding.severity \in CanonicalSeverities
          /\ Cardinality(CanonicalSeverities) = 9
          /\ IsSome(level) =>
               /\ \A c \in CanonicalSeverities :
                    EqualIgnoringCase(level[1], c) => finding.severity = c
               /\ (~\E c \in CanonicalSeverities : EqualIgnoringCase(level[1], c))
                    => finding.severity = sUnknown
          /\ (IsSome(level) /\ level[1] \in {sERROR, sErrorCapital, sError})
               => finding.severity = sError

\* C3 happens: results written "ERROR" and "banana" were normalized to
\* "error" and "unknown".
C3_Witness ==
  \E doc \in ReturnedDocuments :
    /\ Len(doc.findings) = 2
    /\ doc.findings[1].rawResult.level = Some(sERROR)
    /\ doc.findings[1].severity = sError
    /\ doc.findings[2].rawResult.level = Some(sBanana)
    /\ doc.findings[2].severity = sUnknown

(***************************************************************************)
(* SpecRules: results that name a rule by ruleId, by ruleIndex or by both, *)
(* in runs whose rule list has, or has not, two rules of the same id.      *)
(***************************************************************************)
\* A rule with a name, a help uri and a default level.
FullRule(id, name, uri, level) ==
  [LevelRule(id, level) EXCEPT !.name = Some(name), !.helpUri = Some(uri)]

RuleA == FullRule(sRuleOne, << "A" >>, << "u", "A" >>, sWarning)

RuleB == FullRule(sRuleTwo, << "B" >>, << "u", "B" >>, sNote)

\* A second rule of the id of RuleA.
RuleC == FullRule(sRuleOne, << "C" >>, << "u", "C" >>, sError)

RulesDrivers ==
  { Driver(sScanner, Some(<< RuleA, RuleB >>)),
    Driver(sOtherScanner, Some(<< RuleA, RuleB, RuleC >>)) }

RulesResults ==
  { [BareResult EXCEPT !.ruleId = Some(sRuleOne)],
    [BareResult EXCEPT !.ruleId = Some(sRuleOne), !.ruleIndex = Some(1)],
    [BareResult EXCEPT !.ruleId = Some(sRuleTwo), !.ruleIndex = Some(0)],
    [BareResult EXCEPT !.ruleIndex = Some(0)],
    BareResult }

InitRules == InitWith(Documents(RulesDrivers, RulesResults), { NoOptions })

\* One call of normalizeSarif on each input.
SpecRules == InitRules /\ [][Normalize]_vars

\* The rule list of run i of a valid input.
InputRules(i) == OrElse(InputRuns[i].tool[1].driver[1].rules, << >>)

\* The positions, in the rule list of run i, of the rules of the given id.
RulesOfId(i, id) == { k \in 1..Len(InputRules(i)) : InputRules(i)[k].id = Some(id) }

\* Result j of run i has a ruleId that a rule of the run carries.
ResolvesById(i, j) ==
  /\ Truthy(InputResults(i)[j].ruleId)
  /\ RulesOfId(i, InputResults(i)[j].ruleId[1]) # {}

\* The finding carries the name, help uri and default level of the rule.
MadeFromRule(finding, rule) ==
  /\ finding.ruleId = rule.id[1]
  /\ finding.ruleName = rule.name
  /\ finding.helpUrl = rule.helpUri
  /\ IsNone(finding.rawResult.level) =>
       finding.severity = rule.defaultConfiguration[1].level[1]

\* C6: a result with a ruleId that a rule of its run carries and with a
\* ruleIndex, whatever rule that points at, gets a rule of that ruleId.
C6_RuleIdPrecedence ==
  ValidInput =>
    \A doc \in ReturnedDocuments :
      \A i \in 1..Len(InputRuns) :
        \A j \in 1..Len(InputResults(i)) :
          (ResolvesById(i, j) /\ IsSome(InputResults(i)[j].ruleIndex)) =>
            \E k \in RulesOfId(i, InputResults(i)[j].ruleId[1]) :
              MadeFromRule(doc.findings[FindingIndex(i, j)], InputRules(i)[k])

\* C6 happens: a result with ruleId R2 and ruleIndex 0, which points at a
\* rule of id R1, was normalized.
C6_Witness ==
  /\ ValidInput
  /\ ReturnedDocuments # {}
  /\ \E i \in 1..Len(InputRuns) :
       \E j \in 1..Len(InputResults(i)) :
         /\ InputResults(i)[j].ruleId = Some(sRuleTwo)
         /\ InputResults(i)[j].ruleIndex = Some(0)
         /\ InputRules(i)[1].id = Some(sRuleOne)

\* C7: a result that resolves by a ruleId carried by several rules of its
\* run gets the first of them in the rule list.
C7_FirstRuleWins ==
  ValidInput =>
    \A doc \in ReturnedDocuments :
      \A i \in 1..Len(InputRuns) :
        \A j \in 1..Len(InputResults(i)) :
          ResolvesById(i, j) =>
            LET ks == RulesOfId(i, InputResults(i)[j].ruleId[1])
                firstOne == CHOOSE k \in ks : \A h \in ks : k <= h
            IN  MadeFromRule(doc.findings[FindingIndex(i, j)], InputRules(i)[firstOne])

(***************************************************************************)
(* SpecMessage: results whose message has a text, a markdown, both or      *)
(* neither.                                                                *)
(***************************************************************************)
MessageResults ==
  { [BareResult EXCEPT !.message = Some(m)] :
      m \in { EmptyMessage,
              TextMessage(sMessage),
              MarkdownMessage(sMarkdown),
              [text |-> Some(sMessage), markdown |-> Some(sMarkdown), extra |-> None],
              [text |-> Some(sEmpty), markdown |-> Some(sMarkdown), extra |-> None] } }

InitMessage ==
  InitWith(Documents({ Driver(sScanner, None) }, MessageResults), { NoOptions })

\* One call of normalizeSarif on each input.
SpecMessage == InitMessage /\ [][Normalize]_vars

\* C8: a finding's message is the text of the result's message when it has
\* one, else its markdown when it has one, else the empty string; a message
\* with neither is no error.
C8_MessageFallback ==
  /\ \A c \in Calls : ValidInput => ~c[1].threw
  /\ \A doc \in ReturnedDocuments :
       \A k \in 1..Len(doc.findings) :
         LET message == doc.findings[k].rawResult.message[1]
         IN  doc.findings[k].message =
               (IF IsSome(message.text) THEN message.text[1]
                ELSE IF IsSome(message.markdown) THEN message.markdown[1]
                ELSE sEmpty)

\* C8 happens: a message with only a markdown and a message with neither
\* field were normalized.
C8_Witness ==
  \E doc \in ReturnedDocuments :
    /\ Len(doc.findings) = 2
    /\ doc.findings[1].rawResult.message[1] = MarkdownMessage(sMarkdown)
    /\ doc.findings[1].message = sMarkdown
    /\ doc.findings[2].rawResult.message[1] = EmptyMessage
    /\ doc.findings[2].message = sEmpty

(***************************************************************************)
(* SpecDedupe: results that agree in what buildDedupeKey hashes and differ *)
(* in the rest, in runs of two tools.                                      *)
(***************************************************************************)
\* A result with a ruleId, a message and a location.
LocatedResult ==
  [BareResult EXCEPT !.ruleId = Some(sRuleOne),
                     !.message = Some(TextMessage(sMessage)),
                     !.locations = Some(<< FileLocation(sFile, 10) >>)]

sFingerprintA == << "f", "a" >>

sFingerprintB == << "f", "b" >>

\* The fields buildDedupeKey does not read, all given.
WithUnrelated(result) ==
  [result EXCEPT
     !.properties = Some([tags |-> StringTags(<< "t" >>),
                          custom |-> Some(<< "x" >>)]),
     !.fixes = Some(<< Fix(Some(TextMessage(<< "f", "i", "x" >>))) >>),
     !.id = Some(<< "i", "d" >>),
     !.guid = Some(<< "g" >>),
     !.kind = Some(<< "f", "a", "i", "l" >>),
     !.ruleIndex = Some(7)]

PartialFingerprint(result, key, value) ==
  [result EXCEPT
     !.partialFingerprints = Some([OrElse(@, NoFingerprints) EXCEPT ![key] = value])]

Fingerprint(result, key, value) ==
  [result EXCEPT
     !.fingerprints = Some([OrElse(@, NoFingerprints) EXCEPT ![key] = value])]

DedupeResults ==
  { LocatedResult,
    WithUnrelated(LocatedResult),
    PartialFingerprint(LocatedResult, "primaryLocationFingerprint", Some(sFingerprintA)),
    WithUnrelated(
      PartialFingerprint(LocatedResult, "primaryLocationFingerprint", Some(sFingerprintA))),
    [LocatedResult EXCEPT !.message = Some(TextMessage(sMarkdown))] }

InitDedupe ==
  InitWith(Documents({ Driver(sScanner, None), Driver(sOtherScanner, None) },
                     DedupeResults), { NoOptions })

\* One call of normalizeSarif on each input.
SpecDedupe == InitDedupe /\ [][Normalize]_vars

\* C9: two findings made from results of the same ruleId, with the same
\* severity, message and location and the same fingerprints and
\* partialFingerprints, have the same dedupeKey, whatever else the results
\* carry and wherever they stand.
C9_DedupeStability ==
  \A doc \in ReturnedDocuments :
    \A k, h \in 1..Len(doc.findings) :
      LET f == doc.findings[k]
          g == doc.findings[h]
      IN  ( /\ f.rawResult.ruleId = g.rawResult.ruleId
            /\ f.severity = g.severity
            /\ f.message = g.message
            /\ f.location = g.location
            /\ f.rawResult.fingerprints = g.rawResult.fingerprints
            /\ f.rawResult.partialFingerprints = g.rawResult.partialFingerprints )
          => f.dedupeKey = g.dedupeKey

\* C9 happens: two results of different runs and tools, one of them with a
\* properties bag, tags, a fix, an id and a guid, got the same dedupeKey.
C9_Witness ==
  \E doc \in ReturnedDocuments :
    /\ Len(doc.findings) = 2
    /\ doc.findings[1].tool.name # doc.findings[2].tool.name
    /\ IsNone(doc.findings[1].rawResult.properties)
    /\ IsSome(doc.findings[2].rawResult.properties)
    /\ IsSome(doc.findings[2].rawResult.id)
    /\ IsSome(doc.findings[2].rawResult.partialFingerprints)
    /\ doc.findings[1].id # doc.findings[2].id
    /\ doc.findings[1].dedupeKey = doc.findings[2].dedupeKey

(***************************************************************************)
(* SpecFingerprint: results that differ only in their primary-location     *)
(* fingerprints.                                                           *)
(***************************************************************************)
\* The two keys buildDedupeKey reads in fingerprints and partialFingerprints.
FingerprintKeys == { "primaryLocationFingerprint", "primaryLocationFingerprintV2" }

FingerprintResults ==
  { LocatedResult,
    PartialFingerprint(LocatedResult, "primaryLocationFingerprint", Some(sEmpty)) }
  \cup { PartialFingerprint(LocatedResult, key, Some(v)) :
           key \in FingerprintKeys, v \in { sFingerprintA, sFingerprintB } }
  \cup { Fingerprint(LocatedResult, key, Some(v)) :
           key \in FingerprintKeys, v \in { sFingerprintA, sFingerprintB } }

InitFingerprint ==
  InitWith(Documents({ Driver(sScanner, None) }, FingerprintResults), { NoOptions })

\* One call of normalizeSarif on each input.
SpecFingerprint == InitFingerprint /\ [][Normalize]_vars

\* The four primary-location fingerprint values of a result, undefined
\* where the result has none.
PrimaryFingerprints(result) ==
  LET partial == OrElse(result.partialFingerprints, NoFingerprints)
      full == OrElse(result.fingerprints, NoFingerprints)
  IN  << partial.primaryLocationFingerprint, partial.primaryLocationFingerprintV2,
         full.primaryLocationFingerprint, full.primaryLocationFingerprintV2 >>

\* The result but for its primary-location fingerprint values.
WithoutPrimaryFingerprints(result) ==
  [result EXCEPT
     !.partialFingerprints =
        Some([OrElse(@, NoFingerprints) EXCEPT
                !.primaryLocationFingerprint = None,
                !.primaryLocationFingerprintV2 = None]),
     !.fingerprints =
        Some([OrElse(@, NoFingerprints) EXCEPT
                !.primaryLocationFingerprint = None,
                !.primaryLocationFingerprintV2 = None])]

\* Findings k and h of the document are made from results of runs of the
\* same tool that are the same but for their primary-location fingerprints,
\* and have the same severity.
SameButFingerprints(doc, k, h) ==
  /\ WithoutPrimaryFingerprints(doc.findings[k].rawResult)
       = WithoutPrimaryFingerprints(doc.findings[h].rawResult)
  /\ doc.findings[k].tool = doc.findings[h].tool
  /\ doc.findings[k].severity = doc.findings[h].severity

sSuppliedId == << "x" >>
sSyntheticId == << "0", "-", "1", "-" >> \o sUnknown

\* Results with no id and no guid, with an id, with the same text as guid,
\* with an id that reads like a synthesized one, and with a ruleId only.
IdResults ==
  { BareResult,
    [BareResult EXCEPT !.id = Some(sSuppliedId)],
    [BareResult EXCEPT !.guid = Some(sSuppliedId)],
    [BareResult EXCEPT !.id = Some(sSyntheticId)],
    [BareResult EXCEPT !.ruleId = Some(sRuleOne)] }

InitIds == InitWith(Documents({ Driver(sScanner, None) }, IdResults), { NoOptions })

SpecIds == InitIds /\ [][Normalize]_vars

\* The result supplies neither an id nor a guid.
Unidentified(result) == IsNone(result.id) /\ IsNone(result.guid)

\* The id the claim describes for result j of run i (both from 1; the
\* indices in the text are from 0).
DescribedId(i, j) ==
  LET result == InputResults(i)[j]
  IN  IF IsSome(result.id) THEN result.id[1]
      ELSE IF IsSome(result.guid) THEN result.guid[1]
      ELSE NatToString(i - 1) \o << "-" >> \o NatToString(j - 1) \o << "-" >>
           \o (IF IsSome(result.ruleId) THEN result.ruleId[1] ELSE sUnknown)

\* C11 as claimed: the findings of one returned document have pairwise
\* distinct ids.
C11_DistinctIds ==
  \A doc \in ReturnedDocuments :
    \A k, h \in 1..Len(doc.findings) :
      k # h => doc.findings[k].id # doc.findings[h].id

\* C11 as amended: every finding's id is the result's id, else its guid,
\* else the text made of run index, result index and ruleId-or-"unknown";
\* the findings made from results with neither id nor guid have pairwise
\* distinct ids.
C11_DistinctSynthesizedIds ==
  \A doc \in ReturnedDocuments :
    /\ \A i \in 1..Len(InputRuns) :
         \A j \in 1..Len(InputResults(i)) :
           doc.findings[FindingIndex(i, j)].id = DescribedId(i, j)
    /\ \A k, h \in 1..Len(doc.findings) :
         ( /\ k # h
           /\ Unidentified(doc.findings[k].rawResult)
           /\ Unidentified(doc.findings[h].rawResult) )
         => doc.findings[k].id # doc.findings[h].id

\* The amended C11 happens: two runs with one result each, the same result
\* with no id and no guid, gave the ids "0-0-unknown" and "1-0-unknown".
C11_Witness ==
  \E doc \in ReturnedDocuments :
    /\ Len(InputRuns) = 2
    /\ Len(doc.findings) = 2
    /\ doc.findings[1].rawResult = doc.findings[2].rawResult
    /\ Unidentified(doc.findings[1].rawResult)
    /\ doc.findings[1].id = << "0", "-", "0", "-" >> \o sUnknown
    /\ doc.findings[2].id = << "1", "-", "0", "-" >> \o sUnknown


\* ---------------------------------------------------------------------------
\* Validation: documents with and without each required and optional field.

\* A rule and a result with their optional fields present.
FilledRule ==
  [id |-> Some(sRuleOne), name |-> Some(<< "n" >>),
   shortDescription |-> Some(TextMessage(sMessage)),
   fullDescription |-> Some(MarkdownMessage(sMarkdown)),
   help |-> Some(TextMessage(sMessage)), helpUri |-> Some(<< "u" >>),
   properties |-> Some(EmptyProperties),
   defaultConfiguration |-> Some([level |-> Some(sNote), severity |-> Some(sError)])]

FilledResult ==
  [ruleId |-> Some(sRuleOne), ruleIndex |-> Some(0),
   message |-> Some(TextMessage(sMessage)), level |-> Some(sWarning),
   kind |-> Some(<< "k" >>), baselineState |-> Some(<< "b" >>),
   locations |-> Some(<< FileLocation(sFile, 1) >>),
   relatedLocations |-> Some(<< EmptyLocation >>),
   fixes |-> Some(<< Fix(Some(TextMessage(sMessage))) >>),
   fingerprints |-> Some(NoFingerprints),
   partialFingerprints |-> Some(NoFingerprints),
   properties |-> Some(EmptyProperties), id |-> Some(<< "i" >>),
   guid |-> Some(<< "g" >>), extra |-> None]

RuleWithoutId == [BareRule(sRuleOne) EXCEPT !.id = None]

ResultWithoutMessage == [BareResult EXCEPT !.message = None]

\* Runs that lack a required key, an optional key, or nothing.
ValidationRuns ==
  LET driver == Driver(sScanner, None)
      run == Run(driver, Some(<< BareResult >>))
  IN  { run,
        [run EXCEPT !.tool = None],
        [run EXCEPT !.tool = Some([driver |-> None])],
        Run([driver EXCEPT !.name = None], Some(<< BareResult >>)),
        Run(driver, None),
        Run(driver, Some(<< >>)),
        Run(driver, Some(<< ResultWithoutMessage >>)),
        Run(driver, Some(<< BareResult, ResultWithoutMessage >>)),
        Run(Driver(sScanner, Some(<< RuleWithoutId >>)), None),
        Run(Driver(sScanner, Some(<< BareRule(sRuleOne), RuleWithoutId >>)),
            Some(<< BareResult >>)),
        Run([name |-> Some(sScanner), semanticVersion |-> Some(<< "1" >>),
             version |-> Some(<< "2" >>), informationUri |-> Some(<< "u" >>),
             rules |-> Some(<< FilledRule >>)],
            Some(<< FilledResult >>)) }

ValidationDocuments ==
  { Document(version, runs) :
      version \in { None, Some(sVersion) },
      runs \in { None } \cup { Some(rs) : rs \in SeqsUpTo(ValidationRuns, MaxRuns) } }

InitValidation ==
  InitWith({ JsUndefined, JsNull, JsNumber }
           \cup { JsString(t) : t \in Texts }
           \cup { JsObject(d) : d \in ValidationDocuments },
           { NoOptions })

SpecValidation == InitValidation /\ [][Normalize]_vars

\* The payload is a document with a version, runs, tool.driver.name in every
\* run and a message in every result.
HasClaimedFields ==
  /\ ~Payload.threw
  /\ Payload.value[1].t = "object"
  /\ LET doc == Payload.value[1].doc[1]
     IN  /\ IsSome(doc.version)
         /\ IsSome(doc.runs)
         /\ \A i \in 1..Len(doc.runs[1]) :
              LET run == doc.runs[1][i]
              IN  /\ IsSome(run.tool)
                  /\ IsSome(run.tool[1].driver)
                  /\ IsSome(run.tool[1].driver[1].name)
                  /\ \A j \in 1..Len(OrElse(run.results, << >>)) :
                       IsSome(run.results[1][j].message)

\* Every rule of every driver of a payload with the claimed fields has an id.
RulesHaveIds ==
  \A i \in 1..Len(InputRuns) :
    LET rules == OrElse(InputRuns[i].tool[1].driver[1].rules, << >>)
    IN  \A k \in 1..Len(rules) : IsSome(rules[k].id)

\* Of a returned document: a run without results has given no finding.
AbsentResultsAreEmpty(doc) ==
  /\ Len(doc.findings) = Len(AllInputResults)
  /\ doc.stats.totalFindings = Len(AllInputResults)

\* C12 as claimed: an input is accepted exactly when it is a document with
\* a version, runs, a tool.driver.name in every run and a message in every
\* result; a run without results counts as having none.
C12_AcceptsExactly ==
  \A c \in Calls :
    /\ ~c[1].threw <=> HasClaimedFields
    /\ ~c[1].threw => AbsentResultsAreEmpty(c[1].value[1])

\* C12 as amended: an input is accepted exactly when it is a document with
\* a version, runs, a tool.driver.name in every run, an id in every rule
\* and a message in every result; a run without results counts as having
\* none.
C12_AcceptsExactlyWithRuleIds ==
  \A c \in Calls :
    /\ ~c[1].threw <=> (HasClaimedFields /\ RulesHaveIds)
    /\ ~c[1].threw => AbsentResultsAreEmpty(c[1].value[1])

\* The amended C12 happens: a document of two runs, the first with nothing
\* but a driver name and no results key, the second with one result with
\* nothing but a message, was accepted and has one finding.
C12_Witness ==
  \E c \in Calls :
    /\ ~c[1].threw
    /\ input.t = "object"
    /\ Len(InputRuns) = 2
    /\ InputRuns[1] = Run(Driver(sScanner, None), None)
    /\ InputRuns[2] = Run(Driver(sScanner, None), Some(<< BareResult >>))
    /\ Len(c[1].value[1].findings) = 1


\* ---------------------------------------------------------------------------
\* The messages of the validator's errors.

\* The input is not an empty one: it is not null, undefined or the empty
\* text.
Validated == input.t \notin { "null", "undefined" } /\ input # JsString("")

\* The paths of the required keys that run i (from 1) of the payload lacks,
\* in the order of the document.
FailingPathsOfRun(run, i) ==
  LET at == << "runs", ToString(i - 1) >>
      rules == IF IsSome(run.tool) /\ IsSome(run.tool[1].driver)
                 THEN OrElse(run.tool[1].driver[1].rules, << >>)
                 ELSE << >>
      results == OrElse(run.results, << >>)
  IN  (IF IsNone(run.tool) THEN << at \o << "tool" >> >>
       ELSE IF IsNone(run.tool[1].driver) THEN << at \o << "tool", "driver" >> >>
       ELSE IF IsNone(run.tool[1].driver[1].name)
         THEN << at \o << "tool", "driver", "name" >> >>
       ELSE << >>)
      \o Flatten([k \in 1..Len(rules) |->
           IF IsNone(rules[k].id)
             THEN << at \o << "tool", "driver", "rules", ToString(k - 1), "id" >> >>
             ELSE << >>])
      \o Flatten([j \in 1..Len(results) |->
           IF IsNone(results[j].message)
             THEN << at \o << "results", ToString(j - 1), "message" >> >>
             ELSE << >>])

\* The paths of the required keys an object payload lacks.
FailingPaths ==
  LET doc == Payload.value[1].doc[1]
  IN  (IF IsNone(doc.version) THEN << << "version" >> >> ELSE << >>)
      \o (IF IsNone(doc.runs) THEN << << "runs" >> >>
          ELSE Flatten([i \in 1..Len(doc.runs[1]) |->
                 FailingPathsOfRun(doc.runs[1][i], i)]))

\* A path, dot-joined.
DotJoined(path) == Join([k \in 1..Len(path) |-> << path[k] >>], << "." >>)

\* The message described for a payload that does not match the schema.
DescribedMessage ==
  << "SARIF format is invalid: " >>
  \o (IF Payload.value[1].t = "object"
        THEN Join([k \in 1..Len(FailingPaths) |->
                     DotJoined(FailingPaths[k]) \o << " ", "Required" >>],
                  << ", " >>)
      ELSE IF Payload.value[1].t = "undefined" THEN << "<root>", " ", "Required" >>
      ELSE << "<root>", " ", "Expected object, received ", Payload.value[1].t >>)

\* The message names a field path: after its prefix comes <root> or the
\* first key of a path.
NamesPath(message) ==
  /\ Len(message) >= 4
  /\ message[1] = "SARIF format is invalid: "
  /\ message[2] \in { "<root>", "version", "runs" }

\* C13 as claimed: every failure of the validator, for a text that does not
\* deserialize as for a payload that does not match the schema, has a
\* message that names a field path, and a schema failure lists every
\* failing path.
C13_FailuresNamePath ==
  \A c \in Calls :
    (Validated /\ c[1].threw) =>
      /\ NamesPath(c[1].error.message)
      /\ ~Payload.threw => c[1].error.message = DescribedMessage

\* C13 as amended: a payload that does not match the schema gives an Error
\* whose message lists every failing path, dot-joined, <root> for the empty
\* path, each with the nature of the mismatch; a text that does not
\* deserialize gives the deserializer's SyntaxError, which names no path.
C13_SchemaFailuresNamePaths ==
  \A c \in Calls :
    (Validated /\ c[1].threw) =>
      IF Payload.threw
        THEN /\ c[1].error.name = "SyntaxError"
             /\ ~NamesPath(c[1].error.message)
        ELSE /\ c[1].error.name = "Error"
             /\ NamesPath(c[1].error.message)
             /\ c[1].error.message = DescribedMessage

\* The amended C13 happens: a document without version whose only run has
\* no tool was rejected with both paths in the one message.
C13_Witness ==
  \E c \in Calls :
    /\ input.t = "object"
    /\ c[1].threw
    /\ c[1].error.message =
         << "SARIF format is invalid: ", "version", " ", "Required", ", ",
            "runs", ".", "0", ".", "tool", " ", "Required" >>


\* ---------------------------------------------------------------------------
\* Empty inputs.

\* C14: an input that is null, undefined or the empty text is rejected with
\* the error of a missing payload, and not with an error of the
\* deserializer or of the schema.
C14_EmptyInputRejected ==
  \A c \in Calls :
    input \in { JsNull, JsUndefined, JsString("") } =>
      /\ c[1].threw
      /\ c[1].error = [name |-> "Error", message |-> << "SARIF payload is missing" >>]


\* ---------------------------------------------------------------------------
\* Aliasing: results whose properties.tags is an array the caller holds.

AliasingResults ==
  { BareResult,
    [BareResult EXCEPT
       !.properties = Some([EmptyProperties EXCEPT !.tags = StringTags(<< "t" >>)])],
    [BareResult EXCEPT
       !.properties = Some([EmptyProperties EXCEPT
                              !.tags = ArrayTags(<< Some(<< "t" >>) >>, 1)])],
    [BareResult EXCEPT
       !.properties = Some([EmptyProperties EXCEPT
                              !.tags = ArrayTags(<< Some(<< "u" >>) >>, 2)])] }

InitAliasing ==
  InitWith(Documents({ Driver(sScanner, None) }, AliasingResults), { NoOptions })

SpecAliasing == InitAliasing /\ [][Normalize]_vars

\* The identity of the tags array of an optional properties bag, if it is
\* an object of the caller.
HeldTags(properties) ==
  IF IsSome(properties) /\ properties[1].tags.ref > 0
    THEN { properties[1].tags.ref } ELSE {}

\* The objects of the caller that the structured input holds.
InputObjects ==
  UNION { HeldTags(AllInputResults[k].properties) : k \in 1..Len(AllInputResults) }

\* The objects of the caller that a returned document holds, in a finding's
\* properties or rawResult.
OutputObjects(doc) ==
  UNION { HeldTags(Some(doc.findings[k].properties))
            \cup HeldTags(doc.findings[k].rawResult.properties) :
          k \in 1..Len(doc.findings) }

\* C15: a returned document holds no object of the structured input.
C15_NoAliasing ==
  \A doc \in ReturnedDocuments :
    input.t = "object" => OutputObjects(doc) \cap InputObjects = {}


\* ---------------------------------------------------------------------------
\* The level chain: results with and without a level, rules with and
\* without a default level and a default severity.

sRuleL == << "L" >>
sRuleS == << "S" >>
sRuleN == << "N" >>
sRuleB == << "B" >>

\* Rules with a default level note and severity warning, with a default
\* severity pass only, with an empty default configuration, with none.
LevelRules ==
  << [BareRule(sRuleL) EXCEPT
        !.defaultConfiguration = Some([level |-> Some(sNote), severity |-> Some(sWarning)])],
     [BareRule(sRuleS) EXCEPT
        !.defaultConfiguration = Some([level |-> None, severity |-> Some(sPass)])],
     [BareRule(sRuleN) EXCEPT
        !.defaultConfiguration = Some([level |-> None, severity |-> None])],
     BareRule(sRuleB) >>

LevelResults ==
  { [BareResult EXCEPT !.ruleId = Some(sRuleL), !.level = Some(sError)],
    [BareResult EXCEPT !.ruleId = Some(sRuleL), !.level = Some(sEmpty)],
    [BareResult EXCEPT !.ruleId = Some(sRuleL)],
    [BareResult EXCEPT !.ruleId = Some(sRuleS)],
    [BareResult EXCEPT !.ruleId = Some(sRuleN)],
    [BareResult EXCEPT !.ruleId = Some(sRuleB)],
    [BareResult EXCEPT !.level = Some(sError)],
    BareResult }

InitLevel ==
  InitWith(Documents({ Driver(sScanner, Some(LevelRules)) }, LevelResults), { NoOptions })

SpecLevel == InitLevel /\ [][Normalize]_vars

\* The default configuration of the rule that result j of run i names, if
\* it names one and the rule has one (rule ids are distinct here).
DefaultConfigurationFor(i, j) ==
  IF ResolvesById(i, j)
    THEN InputRules(i)[CHOOSE k \in RulesOfId(i, InputResults(i)[j].ruleId[1]) : TRUE]
           .defaultConfiguration
    ELSE None

\* The level the claim describes for result j of run i.
DescribedLevel(i, j) ==
  LET result == InputResults(i)[j]
      configuration == DefaultConfigurationFor(i, j)
  IN  IF IsSome(result.level) THEN result.level[1]
      ELSE IF IsSome(configuration) /\ IsSome(configuration[1].level)
        THEN configuration[1].level[1]
      ELSE IF IsSome(configuration) /\ IsSome(configuration[1].severity)
        THEN configuration[1].severity[1]
      ELSE sUnknown

\* The positions of the findings of the given severity.
FindingsOfSeverity(doc, severity) ==
  { k \in 1..Len(doc.findings) : doc.findings[k].severity = severity }

\* C16: every finding's severity is the canonical form of the result's
\* level, else of the rule's default level, else of the rule's default
\* severity, else of "unknown"; every severity counter is the number of
\* findings of that severity.
C16_LevelPriority ==
  \A doc \in ReturnedDocuments :
    /\ \A i \in 1..Len(InputRuns) :
         \A j \in 1..Len(InputResults(i)) :
           doc.findings[FindingIndex(i, j)].severity
             = normalizeSeverity(Some(DescribedLevel(i, j)))
    /\ \A k \in 1..Len(allowed) :
         doc.stats.bySeverity[allowed[k]]
           = Cardinality(FindingsOfSeverity(doc, allowed[k]))

\* C16 happens: a result with level error and a result without level, both
\* of the rule with default level note and default severity warning, gave
\* an error and a note, each counted once.
C16_Witness ==
  \E doc \in ReturnedDocuments :
    /\ Len(doc.findings) = 2
    /\ doc.findings[1].rawResult
         = [BareResult EXCEPT !.ruleId = Some(sRuleL), !.level = Some(sError)]
    /\ doc.findings[2].rawResult = [BareResult EXCEPT !.ruleId = Some(sRuleL)]
    /\ doc.findings[1].severity = sError
    /\ doc.findings[2].severity = sNote
    /\ doc.stats.bySeverity[sError] = 1
    /\ doc.stats.bySeverity[sNote] = 1
    /\ doc.stats.bySeverity[sWarning] = 0


\* ---------------------------------------------------------------------------
\* Resolution by ruleIndex: results whose ruleId is absent or names no rule.

sRuleNine == << "R", "9" >>

\* Rule lists with two distinct ids: two rules, and three rules of which
\* the second repeats the id of the first.
RuleIndexDrivers ==
  { Driver(sScanner, Some(<< RuleA, RuleB >>)),
    Driver(sOtherScanner, Some(<< RuleA, RuleC, RuleB >>)) }

RuleIndexResults ==
  { [BareResult EXCEPT !.ruleIndex = Some(0)],
    [BareResult EXCEPT !.ruleId = Some(sRuleNine), !.ruleIndex = Some(1)],
    [BareResult EXCEPT !.ruleIndex = Some(2)],
    [BareResult EXCEPT !.ruleId = Some(sRuleNine), !.ruleIndex = Some(-1)],
    BareResult }

InitRuleIndex == InitWith(Documents(RuleIndexDrivers, RuleIndexResults), { NoOptions })

SpecRuleIndex == InitRuleIndex /\ [][Normalize]_vars

\* The distinct rule ids of run i, in the order in which they first occur
\* in the rule list: the keys of the lookup structure.
RegisteredIds(i) ==
  LET identified == SelectSeq(InputRules(i), LAMBDA rule : Truthy(rule.id))
  IN  Distinct([k \in 1..Len(identified) |-> identified[k].id[1]])

\* Result j of run i has a ruleIndex that is a position of the lookup
\* structure.
ResolvesByIndex(i, j) ==
  LET ruleIndex == InputResults(i)[j].ruleIndex
  IN  /\ IsSome(ruleIndex)
      /\ ruleIndex[1] >= 0
      /\ ruleIndex[1] < Len(RegisteredIds(i))

\* The finding is made without a rule, from the given result.
MadeWithoutRule(finding, result) ==
  /\ finding.ruleId = (IF IsSome(result.ruleId) THEN result.ruleId[1] ELSE sUnknown)
  /\ IsNone(finding.ruleName)
  /\ IsNone(finding.helpUrl)
  /\ IsNone(result.level) => finding.severity = sUnknown

\* C17: a result whose ruleId is absent or names no rule of the run gets a
\* rule of the id at position ruleIndex of the lookup structure when
\* 0 <= ruleIndex < the number of distinct ids; otherwise it gets no rule
\* and the finding's ruleId is the result's ruleId or "unknown".
C17_RuleIndexFallback ==
  \A doc \in ReturnedDocuments :
    \A i \in 1..Len(InputRuns) :
      \A j \in 1..Len(InputResults(i)) :
        ~ResolvesById(i, j) =>
          LET finding == doc.findings[FindingIndex(i, j)]
              result == InputResults(i)[j]
          IN  IF ResolvesByIndex(i, j)
                THEN \E k \in RulesOfId(i, RegisteredIds(i)[result.ruleIndex[1] + 1]) :
                       MadeFromRule(finding, InputRules(i)[k])
                ELSE MadeWithoutRule(finding, result)

\* C17 happens: with the rules R1, R1, R2, a result of unregistered ruleId
\* and ruleIndex 1 got the rule R2, and a result of ruleIndex 2 got none.
C17_Witness ==
  \E doc \in ReturnedDocuments :
    /\ Len(InputRuns) = 1
    /\ InputRules(1) = << RuleA, RuleC, RuleB >>
    /\ Len(doc.findings) = 2
    /\ doc.findings[1].rawResult
         = [BareResult EXCEPT !.ruleId = Some(sRuleNine), !.ruleIndex = Some(1)]
    /\ doc.findings[1].ruleId = sRuleTwo
    /\ doc.findings[1].ruleName = RuleB.name
    /\ doc.findings[2].rawResult = [BareResult EXCEPT !.ruleIndex = Some(2)]
    /\ doc.findings[2].ruleId = sUnknown


\* ---------------------------------------------------------------------------
\* Locations: results with no, an empty, a partial and a full first location.

sOtherFile == << "b", ".", "t", "s" >>

FullLocation ==
  [physicalLocation |->
     Some([artifactLocation |-> Some([uri |-> Some(sFile), uriBaseId |-> Some(<< "%", "S" >>)]),
           region |-> Some([startLine |-> Some(1), startColumn |-> Some(2),
                            endLine |-> Some(3), endColumn |-> Some(4),
                            snippet |-> Some([text |-> Some(<< "c" >>)])])]),
   message |-> Some(TextMessage(sMessage)), extra |-> None]

LocationResults ==
  { BareResult,
    [BareResult EXCEPT !.locations = Some(<< >>)],
    [BareResult EXCEPT
       !.locations = Some(<< EmptyLocation, FileLocation(sOtherFile, 7) >>),
       !.relatedLocations = Some(<< FileLocation(sOtherFile, 8) >>)],
    [BareResult EXCEPT !.locations = Some(<< FullLocation, FileLocation(sOtherFile, 7) >>)],
    [BareResult EXCEPT
       !.locations = Some(<< [EmptyLocation EXCEPT
                                !.physicalLocation = Some(EmptyPhysicalLocation)] >>)],
    [BareResult EXCEPT
       !.locations =
          Some(<< [EmptyLocation EXCEPT
                     !.physicalLocation =
                        Some([artifactLocation |-> Some([uri |-> Some(sFile),
                                                         uriBaseId |-> None]),
                              region |-> None])] >>)] }

InitLocation ==
  InitWith(Documents({ Driver(sScanner, None) }, LocationResults), { NoOptions })

SpecLocation == InitLocation /\ [][Normalize]_vars

\* The first entry of the result's locations has a physicalLocation.
FirstIsPhysical(result) ==
  /\ IsSome(result.locations)
  /\ Len(result.locations[1]) > 0
  /\ IsSome(result.locations[1][1].physicalLocation)

\* The location the claim describes for a result whose first location has
\* a physicalLocation: its values, absent where the entry has none.
DescribedLocation(result) ==
  LET physical == result.locations[1][1].physicalLocation[1]
      artifact == OrElse(physical.artifactLocation, EmptyArtifactLocation)
      region == OrElse(physical.region, EmptyRegion)
      snippet == OrElse(region.snippet, [text |-> None])
  IN  [file |-> artifact.uri, uriBaseId |-> artifact.uriBaseId,
       startLine |-> region.startLine, startColumn |-> region.startColumn,
       endLine |-> region.endLine, endColumn |-> region.endColumn,
       snippet |-> snippet.text]

\* C18: a finding's location is absent when the result has no locations or
\* the first of them has no physicalLocation; otherwise it holds the uri,
\* uriBaseId, start and end line and column and snippet text of the first
\* location, each absent when the entry does not give it.
C18_FirstLocationOnly ==
  \A doc \in ReturnedDocuments :
    \A k \in 1..Len(doc.findings) :
      LET finding == doc.findings[k]
      IN  IF FirstIsPhysical(finding.rawResult)
            THEN finding.location = Some(DescribedLocation(finding.rawResult))
            ELSE IsNone(finding.location)

\* C18 happens: a result whose first location has no physicalLocation while
\* its second location and a related location have one got no location, and
\* a result with two located entries got the values of the first.
C18_Witness ==
  \E doc \in ReturnedDocuments :
    /\ Len(doc.findings) = 2
    /\ doc.findings[1].rawResult.locations
         = Some(<< EmptyLocation, FileLocation(sOtherFile, 7) >>)
    /\ IsSome(doc.findings[1].rawResult.relatedLocations)
    /\ IsNone(doc.findings[1].location)
    /\ doc.findings[2].rawResult.locations
         = Some(<< FullLocation, FileLocation(sOtherFile, 7) >>)
    /\ doc.findings[2].location
         = Some([file |-> Some(sFile), uriBaseId |-> Some(<< "%", "S" >>),
                 startLine |-> Some(1), startColumn |-> Some(2),
                 endLine |-> Some(3), endColumn |-> Some(4),
                 snippet |-> Some(<< "c" >>)])


\* ---------------------------------------------------------------------------
\* Remediation: results with and without fixes, rules with a help message.

sHelp == << "h" >>
sHelpMarkdown == << "*", "h", "*" >>
sFix == << "f" >>
sFixMarkdown == << "*", "f", "*" >>
sLaterFix == << "g" >>

\* A rule with a help text and a rule with a help markdown only.
RemediationRules ==
  << [BareRule(sRuleOne) EXCEPT !.help = Some(TextMessage(sHelp))],
     [BareRule(sRuleTwo) EXCEPT !.help = Some(MarkdownMessage(sHelpMarkdown))] >>

RemediationResults ==
  { [BareResult EXCEPT !.ruleId = Some(sRuleOne)],
    [BareResult EXCEPT !.ruleId = Some(sRuleTwo)],
    [BareResult EXCEPT !.ruleId = Some(sRuleOne),
                       !.fixes = Some(<< Fix(Some(TextMessage(sFix))) >>)],
    [BareResult EXCEPT !.ruleId = Some(sRuleOne),
                       !.fixes = Some(<< Fix(None), Fix(Some(TextMessage(sLaterFix))) >>)],
    [BareResult EXCEPT !.fixes = Some(<< Fix(Some(MarkdownMessage(sFixMarkdown))) >>)],
    [BareResult EXCEPT !.fixes = Some(<< Fix(None), Fix(Some(TextMessage(sLaterFix))) >>)],
    [BareResult EXCEPT !.ruleId = Some(sRuleOne),
                       !.fixes = Some(<< Fix(Some(TextMessage(sEmpty))) >>)] }

InitRemediation ==
  InitWith(Documents({ Driver(sScanner, Some(RemediationRules)) }, RemediationResults),
           { NoOptions })

SpecRemediation == InitRemediation /\ [][Normalize]_vars

\* The text of an optional message, else its markdown, else the empty text.
TextElseMarkdown(message) ==
  IF IsNone(message) THEN sEmpty
  ELSE IF IsSome(message[1].text) THEN message[1].text[1]
  ELSE IF IsSome(message[1].markdown) THEN message[1].markdown[1]
  ELSE sEmpty

\* The help message of the rule that result j of run i names, if any (rule
\* ids are distinct here and no result has a ruleIndex).
HelpFor(i, j) ==
  IF ResolvesById(i, j)
    THEN InputRules(i)[CHOOSE k \in RulesOfId(i, InputResults(i)[j].ruleId[1]) : TRUE].help
    ELSE None

\* The remediation the claim describes for result j of run i.
DescribedRemediation(i, j) ==
  LET fixes == OrElse(InputResults(i)[j].fixes, << >>)
      fromFix == IF Len(fixes) > 0 THEN TextElseMarkdown(fixes[1].description) ELSE sEmpty
      fromRule == TextElseMarkdown(HelpFor(i, j))
  IN  IF fromFix # sEmpty THEN Some(fromFix)
      ELSE IF fromRule # sEmpty THEN Some(fromRule)
      ELSE None

\* C19: a finding's remediation is the text, else the markdown, of the
\* first fix's description when that is not empty, else the text, else the
\* markdown, of the rule's help when that is not empty, else absent.
C19_RemediationFallback ==
  \A doc \in ReturnedDocuments :
    \A i \in 1..Len(InputRuns) :
      \A j \in 1..Len(InputResults(i)) :
        doc.findings[FindingIndex(i, j)].remediation = DescribedRemediation(i, j)

\* C19 happens: two results whose first fix has no description and whose
\* second fix has one; the first, of a rule with a help text, got the help
\* text, and the second, of no rule, got no remediation.
C19_Witness ==
  \E doc \in ReturnedDocuments :
    /\ Len(doc.findings) = 2
    /\ doc.findings[1].rawResult.fixes
         = Some(<< Fix(None), Fix(Some(TextMessage(sLaterFix))) >>)
    /\ doc.findings[1].rawResult.ruleId = Some(sRuleOne)
    /\ doc.findings[1].remediation = Some(sHelp)
    /\ doc.findings[2].rawResult.fixes = doc.findings[1].rawResult.fixes
    /\ IsNone(doc.findings[2].rawResult.ruleId)
    /\ IsNone(doc.findings[2].remediation)


\* ---------------------------------------------------------------------------
\* Tags: results and rules whose properties.tags is a string, an array with
\* elements that are not strings, another value, or absent.

sRuleThree == << "R", "3" >>

Tagged(record, tags) ==
  [record EXCEPT !.properties = Some([EmptyProperties EXCEPT !.tags = tags])]

\* Rules with the tags ["a", "b"], "b" and a value that is neither.
TagsRules ==
  << Tagged(BareRule(sRuleOne), ArrayTags(<< Some(<< "a" >>), Some(<< "b" >>) >>, 1)),
     Tagged(BareRule(sRuleTwo), StringTags(<< "b" >>)),
     Tagged(BareRule(sRuleThree), OtherTags) >>

TagsResults ==
  { Tagged([BareResult EXCEPT !.ruleId = Some(sRuleOne)],
           ArrayTags(<< Some(<< "b" >>), None, Some(<< "c" >>), Some(<< "b" >>) >>, 2)),
    Tagged([BareResult EXCEPT !.ruleId = Some(sRuleTwo)], StringTags(<< "a" >>)),
    Tagged([BareResult EXCEPT !.ruleId = Some(sRuleTwo)], StringTags(<< "b" >>)),
    Tagged([BareResult EXCEPT !.ruleId = Some(sRuleThree)], StringTags(<< "b" >>)),
    [BareResult EXCEPT !.ruleId = Some(sRuleOne)],
    Tagged(BareResult, OtherTags) }

InitTags ==
  InitWith(Documents({ Driver(sScanner, Some(TagsRules)) }, TagsResults), { NoOptions })

SpecTags == InitTags /\ [][Normalize]_vars

\* The strings of the tags value of an optional properties bag.
StringsOf(properties) ==
  IF IsNone(properties) THEN {}
  ELSE LET tags == properties[1].tags
       IN  IF tags.t = "string" THEN { tags.s }
           ELSE IF tags.t = "array"
             THEN { tags.a[k][1] : k \in { k \in 1..Len(tags.a) : IsSome(tags.a[k]) } }
           ELSE {}

\* The properties of the rule that result j of run i names, if any (rule
\* ids are distinct here and no result has a ruleIndex).
RulePropertiesFor(i, j) ==
  IF ResolvesById(i, j)
    THEN InputRules(i)[CHOOSE k \in RulesOfId(i, InputResults(i)[j].ruleId[1]) : TRUE]
           .properties
    ELSE None

\* C20: a finding's tags are the strings of the result's properties.tags
\* and of the rule's properties.tags, none of them twice, those of the
\* result before those that only the rule gives.
C20_TagsUnion ==
  \A doc \in ReturnedDocuments :
    \A i \in 1..Len(InputRuns) :
      \A j \in 1..Len(InputResults(i)) :
        LET tags == doc.findings[FindingIndex(i, j)].tags
            ofResult == StringsOf(InputResults(i)[j].properties)
            ofRule == StringsOf(RulePropertiesFor(i, j))
        IN  /\ { tags[p] : p \in 1..Len(tags) } = ofResult \cup ofRule
            /\ Len(tags) = Cardinality(ofResult \cup ofRule)
            /\ \A p, q \in 1..Len(tags) :
                 (tags[p] \in ofResult /\ tags[q] \notin ofResult) => p < q

\* C20 happens: a result with the tags ["b", 7, "c", "b"] of a rule with
\* the tags ["a", "b"] got b, c, a; a result with the tag "a" of a rule
\* with the tag "b" got a, b.
C20_Witness ==
  \E doc \in ReturnedDocuments :
    /\ Len(doc.findings) = 2
    /\ TagsOf(Some(doc.findings[1].rawResult)).a
         = << Some(<< "b" >>), None, Some(<< "c" >>), Some(<< "b" >>) >>
    /\ doc.findings[1].tags = << << "b" >>, << "c" >>, << "a" >> >>
    /\ TagsOf(Some(doc.findings[2].rawResult)) = StringTags(<< "a" >>)
    /\ doc.findings[2].tags = << << "a" >>, << "b" >> >>


\* ---------------------------------------------------------------------------
\* The rule component of the dedupeKey.

\* The non-empty primary-location fingerprint values of a finding, in the
\* order partialFingerprints, partialFingerprints v2, fingerprints,
\* fingerprints v2.
FingerprintList(finding) ==
  LET present == SelectSeq(<< finding.partialFingerprints.primaryLocationFingerprint,
                              finding.partialFingerprints.primaryLocationFingerprintV2,
                              finding.fingerprints.primaryLocationFingerprint,
                              finding.fingerprints.primaryLocationFingerprintV2 >>,
                           Truthy)
  IN  [k \in 1..Len(present) |-> present[k][1]]

\* The digest the claim describes: the one of the finding's own ruleId,
\* severity, message, location file, start line, start column and
\* fingerprint list.
DescribedDedupeKey(finding) ==
  LET location == finding.location
      file == IF IsSome(location) /\ IsSome(location[1].file)
                THEN location[1].file[1] ELSE sEmpty
      startLine == IF IsSome(location) /\ IsSome(location[1].startLine)
                     THEN NumberToString(location[1].startLine[1]) ELSE sEmpty
      startColumn == IF IsSome(location) /\ IsSome(location[1].startColumn)
                       THEN NumberToString(location[1].startColumn[1]) ELSE sEmpty
  IN  Sha256Hex(Join(<< finding.ruleId, finding.severity, finding.message,
                        file, startLine, startColumn,
                        JsonStringifyStrings(FingerprintList(finding)) >>,
                     << ":", ":" >>))

\* C21: the dedupeKey of every finding is the digest of the finding's
\* ruleId, severity, message, location file, start line, start column and
\* fingerprint list.
C21_KeyOfResolvedRuleId ==
  \A doc \in ReturnedDocuments :
    \A k \in 1..Len(doc.findings) :
      doc.findings[k].dedupeKey = DescribedDedupeKey(doc.findings[k])


\* ---------------------------------------------------------------------------
\* The fingerprint list of the dedupeKey: results with several
\* primary-location fingerprints at once.

Fingerprints(v1, v2, other) ==
  [primaryLocationFingerprint |-> v1, primaryLocationFingerprintV2 |-> v2,
   other |-> other]

\* Results with the four values, with two of them, with none, with an empty
\* one, and with another fingerprint only.
FingerprintListResults ==
  { [LocatedResult EXCEPT
       !.partialFingerprints = Some(Fingerprints(Some(<< "1" >>), Some(<< "2" >>), None)),
       !.fingerprints = Some(Fingerprints(Some(<< "3" >>), Some(<< "4" >>), None))],
    [LocatedResult EXCEPT
       !.partialFingerprints = Some(Fingerprints(None, Some(<< "2" >>), None)),
       !.fingerprints = Some(Fingerprints(Some(<< "3" >>), None, None))],
    LocatedResult,
    [LocatedResult EXCEPT
       !.partialFingerprints = Some(Fingerprints(Some(sEmpty), None, None)),
       !.fingerprints = Some(Fingerprints(None, Some(<< "4" >>), None))],
    [LocatedResult EXCEPT
       !.partialFingerprints = Some(Fingerprints(None, None, Some(<< "9" >>)))] }

InitFingerprintList ==
  InitWith(Documents({ Driver(sScanner, None) }, FingerprintListResults), { NoOptions })

SpecFingerprintList == InitFingerprintList /\ [][Normalize]_vars

\* The present primary-location fingerprint values of a finding, empty or
\* not, in the order partialFingerprints, partialFingerprints v2,
\* fingerprints, fingerprints v2.
PresentFingerprintList(finding) ==
  LET present == SelectSeq(<< finding.partialFingerprints.primaryLocationFingerprint,
                              finding.partialFingerprints.primaryLocationFingerprintV2,
                              finding.fingerprints.primaryLocationFingerprint,
                              finding.fingerprints.primaryLocationFingerprintV2 >>,
                           IsSome)
  IN  [k \in 1..Len(present) |-> present[k][1]]

\* The text ends with the given text.
EndsWith(text, end) ==
  /\ Len(text) >= Len(end)
  /\ SubSeq(text, Len(text) - Len(end) + 1, Len(text)) = end

\* The last part of the text hashed into the finding's dedupeKey is the
\* serialized list.
HashesList(finding, list) ==
  EndsWith(finding.dedupeKey.sha256, << ":", ":" >> \o JsonStringifyStrings(list))

\* C22 as claimed: the list hashed into the dedupeKey is exactly the
\* present values among the four, in their order.
C22_PresentFingerprintsHashed ==
  \A doc \in ReturnedDocuments :
    \A k \in 1..Len(doc.findings) :
      HashesList(doc.findings[k], PresentFingerprintList(doc.findings[k]))

\* C22 as amended: the list hashed into the dedupeKey is exactly the
\* non-empty values among the four, in their order; a missing or empty
\* value leaves no placeholder.
C22_NonEmptyFingerprintsHashed ==
  \A doc \in ReturnedDocuments :
    \A k \in 1..Len(doc.findings) :
      /\ HashesList(doc.findings[k], FingerprintList(doc.findings[k]))
      /\ Len(FingerprintList(doc.findings[k])) <= 4

\* The amended C22 happens: a result with the two middle values hashed
\* ["2","3"], and a result with an empty first and a last value hashed
\* ["4"].
C22_Witness ==
  \E doc \in ReturnedDocuments :
    /\ Len(doc.findings) = 2
    /\ FingerprintList(doc.findings[1]) = << << "2" >>, << "3" >> >>
    /\ EndsWith(doc.findings[1].dedupeKey.sha256,
                << ":", ":", "[", "\"", "2", "\"", ",", "\"", "3", "\"", "]" >>)
    /\ doc.findings[2].partialFingerprints.primaryLocationFingerprint = Some(sEmpty)
    /\ EndsWith(doc.findings[2].dedupeKey.sha256,
                << ":", ":", "[", "\"", "4", "\"", "]" >>)


\* ---------------------------------------------------------------------------
\* Tool names: runs of two named drivers and of a driver whose name is the
\* empty string, with and without results.

InitToolNames ==
  InitWith(Documents({ Driver(sScanner, None), Driver(sOtherScanner, None),
                       Driver(sEmpty, None) },
                     { BareResult }),
           { NoOptions })

SpecToolNames == InitToolNames /\ [][Normalize]_vars

\* The driver names of the runs of a valid input.
InputDriverNames ==
  { InputRuns[i].tool[1].driver[1].name[1] : i \in 1..Len(InputRuns) }

\* C23: metadata.toolNames holds the driver name of every run, each once,
\* and nothing else.
C23_ToolNamesOfEveryRun ==
  \A doc \in ReturnedDocuments :
    LET toolNames == doc.metadata.toolNames
    IN  /\ { toolNames[k] : k \in 1..Len(toolNames) } = InputDriverNames
        /\ Len(toolNames) = Cardinality(InputDriverNames)

\* C28: the tool.name of every finding of a returned document is one of
\* its metadata.toolNames.
C28_FindingToolIsListed ==
  \A doc \in ReturnedDocuments :
    \A k \in 1..Len(doc.findings) :
      \E n \in 1..Len(doc.metadata.toolNames) :
        doc.metadata.toolNames[n] = doc.findings[k].tool.name


\* ---------------------------------------------------------------------------
\* Retention: results with keys the schema does not declare, in the result
\* and in its message, location and fix.

sExtra == << "x" >>

RetentionResults ==
  { BareResult,
    [BareResult EXCEPT !.extra = Some(sExtra), !.kind = Some(<< "k" >>)],
    [BareResult EXCEPT !.message = Some([TextMessage(sMessage) EXCEPT !.extra = Some(sExtra)])],
    [BareResult EXCEPT
       !.locations = Some(<< [FileLocation(sFile, 1) EXCEPT !.extra = Some(sExtra)] >>)],
    [BareResult EXCEPT
       !.relatedLocations = Some(<< [EmptyLocation EXCEPT !.extra = Some(sExtra)] >>),
       !.fixes = Some(<< [Fix(None) EXCEPT !.extra = Some(sExtra)] >>)] }

InitRetention ==
  InitWith(Documents({ Driver(sScanner, None) }, RetentionResults), { NoOptions })

SpecRetention == InitRetention /\ [][Normalize]_vars

\* C24: the rawResult of every finding has every field of its source
\* result, those the schema does not declare included, in the result and in
\* its message, locations, relatedLocations and fixes.
C24_RawResultRetainsAll ==
  \A doc \in ReturnedDocuments :
    \A i \in 1..Len(InputRuns) :
      \A j \in 1..Len(InputResults(i)) :
        doc.findings[FindingIndex(i, j)].rawResult = InputResults(i)[j]


(***************************************************************************)
(* The persisting handler: POST requests that run concurrently against the *)
(* table sarif_reports.  The texts of the errors are given in English.     *)
(***************************************************************************)
MAX_REPORTS_PER_SESSION == 10

\* the number of concurrent POST requests
MaxRequests == 2

sSessionA == << "a" >>
sSessionB == << "b" >>

\* event.body: empty, a text that is not JSON, a JSON object with a sarif
\* key, or a JSON object that is the report itself.
EmptyBody == [kind |-> "empty", sarif |-> JsUndefined, fileName |-> None, sessionId |-> None]

TextBody ==
  [kind |-> "text", sarif |-> JsString("{not-valid-json"), fileName |-> None,
   sessionId |-> None]

WrappedBody(sarif, fileName, sessionId) ==
  [kind |-> "wrapped", sarif |-> sarif, fileName |-> fileName, sessionId |-> sessionId]

BareBody(sarif, fileName, sessionId) ==
  [kind |-> "bare", sarif |-> sarif, fileName |-> fileName, sessionId |-> sessionId]

\* extractSarifPayload(event): the payload, file name and sessionId of the
\* body; a body that is not JSON is the payload itself.
extractSarifPayload(body) ==
  IF body.kind = "empty" THEN Thrown("Error", << "Request body is empty" >>)
  ELSE IF body.kind = "text"
    THEN Returned([sarifPayload |-> body.sarif, fileName |-> None, sessionId |-> None])
  ELSE Returned([sarifPayload |-> body.sarif, fileName |-> body.fileName,
                 sessionId |-> body.sessionId])

\* handlePost up to its first await: the extraction, the sessionId check and
\* the call of normalizeSarif.
\* handlePost after normalizeSarif(sarifPayload, { fileName }) returned or
\* threw: what the handler goes on with.
handlePostCall(e, normalized) ==
  IF normalized.threw THEN normalized
  ELSE Returned([sessionId |-> e.sessionId[1],
                 fileName |-> e.fileName,
                 normalized |-> normalized.value[1]])

handlePostBegin(body, t) ==
  LET extracted == extractSarifPayload(body)
  IN  IF extracted.threw THEN extracted
      ELSE LET e == extracted.value[1]
           IN  IF ~Truthy(e.sessionId)
                 THEN Thrown("Error", << "sessionId is required" >>)
               ELSE handlePostCall(e, normalizeSarif(e.sarifPayload,
                                                     [fileName |-> e.fileName], t))

\* ensureLimitNotExceeded with a slip: the count is not compared.
ensureLimitNotExceededIgnoringCount(count, error) ==
  IF IsSome(error)
    THEN Thrown("Error", << "Supabase count error: " >> \o error[1])
  ELSE Returned(TRUE)

\* ensureLimitNotExceeded, given the { count, error } of its query.
ensureLimitNotExceeded(count, error) ==
  IF IsSome(error)
    THEN Thrown("Error", << "Supabase count error: " >> \o error[1])
  ELSE IF OrElse(count, 0) >= MAX_REPORTS_PER_SESSION
    THEN Thrown("Error", << "Limit of reports reached for the session" >>)
  ELSE Returned(TRUE)

\* The response of the catch block, and the one of a stored report.
BadRequest(error) == [statusCode |-> 400, message |-> error.message]

Ok == [statusCode |-> 200, message |-> << >>]

\* The rows of a session.
RowsOf(sessionId) == SelectSeq(rows, LAMBDA row : row.session_id = sessionId)

\* A request that the handler has not started on.
Received(body) ==
  [body |-> body, pc |-> "received", passed |-> << >>, call |-> None,
   count |-> None, error |-> None, inserted |-> FALSE, response |-> None]

\* The request after handlePost began: answered with 400 by the catch block,
\* or waiting for the count query.
Begun(request, begun) ==
  LET extracted == extractSarifPayload(request.body)
      checked == IF extracted.threw THEN << >>
                 ELSE IF ~Truthy(extracted.value[1].sessionId) THEN << >>
                 ELSE IF begun.threw THEN << "sessionId" >>
                 ELSE << "sessionId", "normalizeSarif" >>
  IN  IF begun.threw
        THEN [request EXCEPT !.pc = "done", !.passed = checked,
                             !.response = Some(BadRequest(begun.error))]
        ELSE [request EXCEPT !.pc = "counting", !.passed = checked,
                             !.call = begun.value]

\* handlePost starts on request r: it answers 400, or sends the count query
\* of ensureLimitNotExceeded.
Post(r) ==
  /\ requests[r].pc = "received"
  /\ requests' =
       [requests EXCEPT
          ![r] = Begun(requests[r], handlePostBegin(requests[r].body, now))]
  /\ UNCHANGED << rows, engineVars, uiVars >>

\* The table answers the count query of request r, with the number of rows
\* of the session or with an error.
CountQuery(r) ==
  /\ requests[r].pc = "counting"
  /\ \E failed \in BOOLEAN :
       requests' =
         [requests EXCEPT
            ![r] = IF failed
                     THEN [@ EXCEPT !.pc = "counted", !.error = Some(<< "e" >>)]
                     ELSE [@ EXCEPT !.pc = "counted",
                                    !.count =
                                       Some(Len(RowsOf(requests[r].call[1].sessionId)))]]
  /\ UNCHANGED << rows, engineVars, uiVars >>

\* handlePost resumes after ensureLimitNotExceeded: it answers 400 when
\* that threw, and sends the insert otherwise.
CheckLimit(r) ==
  /\ requests[r].pc = "counted"
  /\ LET ensured == ensureLimitNotExceeded(requests[r].count, requests[r].error)
     IN  requests' =
           [requests EXCEPT
              ![r] = IF ensured.threw
                       THEN [@ EXCEPT !.pc = "done",
                                      !.response = Some(BadRequest(ensured.error))]
                       ELSE [@ EXCEPT !.pc = "inserting", !.error = None,
                                      !.passed = Append(@, "limit")]]
  /\ UNCHANGED << rows, engineVars, uiVars >>

\* The table executes the insert of request r, or fails to.
InsertQuery(r) ==
  /\ requests[r].pc = "inserting"
  /\ \E failed \in BOOLEAN :
       IF failed
         THEN /\ requests' = [requests EXCEPT ![r].pc = "inserted",
                                              ![r].error = Some(<< "e" >>)]
              /\ UNCHANGED rows
         ELSE LET call == requests[r].call[1]
              IN  /\ rows' =
                       Append(rows,
                              [session_id |-> call.sessionId,
                               file_name |->
                                 OrElse(Coalesce(call.normalized.metadata.fileName,
                                                 call.fileName),
                                        << "sarif.json" >>),
                               normalized |-> call.normalized])
                  /\ requests' = [requests EXCEPT ![r].pc = "inserted",
                                                  ![r].inserted = TRUE]
  /\ UNCHANGED << engineVars, uiVars >>

\* handlePost resumes after the insert and answers.
Respond(r) ==
  /\ requests[r].pc = "inserted"
  /\ requests' =
       [requests EXCEPT
          ![r].pc = "done",
          ![r].response =
             IF IsSome(requests[r].error)
               THEN Some(BadRequest([name |-> "Error",
                                     message |-> << "Supabase insert error: " >>
                                                 \o requests[r].error[1]]))
               ELSE Some(Ok)]
  /\ UNCHANGED << rows, engineVars, uiVars >>

NextHandler ==
  \E r \in 1..Len(requests) :
    Post(r) \/ CountQuery(r) \/ CheckLimit(r) \/ InsertQuery(r) \/ Respond(r)

\* The report the bodies carry, and the row of an earlier request.
StoredDocument == JsObject(Document(Some(sVersion), Some(<< >>)))

StoredRow(sessionId) ==
  [session_id |-> sessionId, file_name |-> << "sarif.json" >>,
   normalized |-> normalizeSarif(StoredDocument, NoOptions, 0).value[1]]

HandlerBodies ==
  { EmptyBody,
    TextBody,
    WrappedBody(StoredDocument, None, Some(sSessionA)),
    BareBody(StoredDocument, Some(<< "f" >>), Some(sSessionB)),
    WrappedBody(StoredDocument, None, None),
    WrappedBody(JsNumber, None, Some(sSessionA)) }

\* Some rows of session a are stored, within the limit, and some requests
\* arrive.
InitHandler ==
  /\ input = JsUndefined
  /\ options = NoOptions
  /\ now = 0
  /\ first = None
  /\ second = None
  /\ NoPage
  /\ \E n \in 0..MAX_REPORTS_PER_SESSION : rows = [k \in 1..n |-> StoredRow(sSessionA)]
  /\ requests \in [1..MaxRequests -> { Received(body) : body \in HandlerBodies }]

SpecHandler == InitHandler /\ [][NextHandler]_vars

\* C25: the rows of a session never outnumber MAX_REPORTS_PER_SESSION.
C25_LimitNeverExceeded ==
  \A sessionId \in { sSessionA, sSessionB } :
    Len(RowsOf(sessionId)) <= MAX_REPORTS_PER_SESSION


\* The body of request r has a sessionId and a payload that normalizeSarif
\* accepts.
Acceptable(r) ==
  LET body == requests[r].body
  IN  /\ body.kind \in { "wrapped", "bare" }
      /\ Truthy(body.sessionId)
      /\ ~normalizeSarif(body.sarif, [fileName |-> body.fileName], now).threw

\* C26: a request has inserted a row only after its sessionId check, its
\* normalizeSarif call and its limit check passed, in this order, the count
\* being below the limit; a request answered with 400 has inserted no row;
\* a request with an empty body, without sessionId or with an invalid
\* report is answered with 400 before any query; every request that is
\* done has a response of status 200 or 400.
C26_InsertAfterChecks ==
  \A r \in 1..Len(requests) :
    LET request == requests[r]
    IN  /\ request.pc \in { "inserting", "inserted" } \/ request.inserted =>
             /\ request.passed = << "sessionId", "normalizeSarif", "limit" >>
             /\ Acceptable(r)
             /\ IsSome(request.count)
             /\ request.count[1] < MAX_REPORTS_PER_SESSION
        /\ request.pc = "done" =>
             /\ IsSome(request.response)
             /\ request.response[1].statusCode \in { 200, 400 }
             /\ request.response[1].statusCode = 400 => ~request.inserted
             /\ request.response[1].statusCode = 200 => request.inserted
             /\ ~Acceptable(r) =>
                  /\ request.response[1].statusCode = 400
                  /\ IsNone(request.count)
                  /\ IsNone(request.error)

\* C26 happens: of two requests for the session a, which had nine rows, one
\* stored the tenth row and was answered with 200, and the other, which
\* counted ten rows, was answered with 400 and stored nothing.
C26_Witness ==
  /\ Len(RowsOf(sSessionA)) = MAX_REPORTS_PER_SESSION
  /\ \E r, q \in 1..Len(requests) :
       /\ requests[r].pc = "done"
       /\ requests[r].inserted
       /\ requests[r].response = Some(Ok)
       /\ requests[q].pc = "done"
       /\ requests[q].count = Some(MAX_REPORTS_PER_SESSION)
       /\ requests[q].response
            = Some([statusCode |-> 400,
                    message |-> << "Limit of reports reached for the session" >>])
       /\ ~requests[q].inserted


(***************************************************************************)
(* SpecSeparator: results whose message or file holds the separator "::".  *)
(***************************************************************************)
sTextWithSeparator == << "a", ":", ":", "b" >>

sText == << "a" >>

sUriAfterSeparator == << "c" >>

sUriWithSeparator == << "b", ":", ":", "c" >>

SeparatorResults ==
  { LocatedResult,
    [LocatedResult EXCEPT
       !.message = Some(TextMessage(sTextWithSeparator)),
       !.locations = Some(<< FileLocation(sUriAfterSeparator, 10) >>)],
    [LocatedResult EXCEPT
       !.message = Some(TextMessage(sText)),
       !.locations = Some(<< FileLocation(sUriWithSeparator, 10) >>)],
    PartialFingerprint(LocatedResult, "primaryLocationFingerprint", Some(sFingerprintA)) }

InitSeparator ==
  InitWith(Documents({ Driver(sScanner, None), Driver(sOtherScanner, None) },
                     SeparatorResults), { NoOptions })

\* One call of normalizeSarif on each input.
SpecSeparator == InitSeparator /\ [][Normalize]_vars

\* The tuple the claim names: ruleId or "unknown", severity, message, file,
\* start line, start column and fingerprint list of a finding.
DedupeTuple(finding) ==
  LET location == finding.location
  IN  << OrElse(finding.rawResult.ruleId, sUnknown),
         finding.severity,
         finding.message,
         IF IsSome(location) /\ IsSome(location[1].file)
           THEN location[1].file[1] ELSE sEmpty,
         IF IsSome(location) /\ IsSome(location[1].startLine)
           THEN NumberToString(location[1].startLine[1]) ELSE sEmpty,
         IF IsSome(location) /\ IsSome(location[1].startColumn)
           THEN NumberToString(location[1].startColumn[1]) ELSE sEmpty,
         FingerprintList([partialFingerprints |->
                            OrElse(finding.rawResult.partialFingerprints, NoFingerprints),
                          fingerprints |->
                            OrElse(finding.rawResult.fingerprints, NoFingerprints)]) >>

\* C29: two findings whose tuples (ruleId or "unknown", severity, message,
\* file, start line, start column, fingerprint list) differ in a component
\* have different dedupeKeys.
C29_DistinctTuplesDistinctKeys ==
  \A doc \in ReturnedDocuments :
    \A k, h \in 1..Len(doc.findings) :
      DedupeTuple(doc.findings[k]) # DedupeTuple(doc.findings[h])
        => doc.findings[k].dedupeKey # doc.findings[h].dedupeKey

(***************************************************************************)
(* The page: App, in a browser, where getOrCreateSessionId returns a       *)
(* non-empty sessionId.  The effect has sent fetchReports; the user gives  *)
(* files to handleFileChange; the function parse-sarif answers both.       *)
(***************************************************************************)
MAX_REPORTS == 10

\* the files given to processFile in the life of the page
MaxUploads == 2

FileNames == { << "f" >>, << "g" >> }

\* api.ts, mapReport: the row of the table as a SarifReport.
mapReport(row) == [id |-> row.id, fileName |-> row.file_name]

\* handleGet's data: the rows of the session, the newest first.
NewestFirst(storedRows) ==
  [k \in 1..Len(storedRows) |-> storedRows[Len(storedRows) + 1 - k]]

\* The function answers the fetchReports request: with the rows it reads at
\* this instant, or with an error.
AnswerFetch ==
  /\ fetching.pc = "sent"
  /\ \E failed \in BOOLEAN :
       fetching' =
         IF failed
           THEN [pc |-> "answered", ok |-> FALSE, data |-> << >>]
           ELSE [pc |-> "answered", ok |-> TRUE,
                 data |-> [k \in 1..Len(stored) |->
                             mapReport(NewestFirst(stored)[k])]]
  /\ UNCHANGED << reports, isLoading, isUploading, pageError, uploads, stored >>
  /\ UNCHANGED << engineVars, handlerVars, columnVars >>

\* The promise of fetchReports settles in the mounted page: then, or catch,
\* and finally.
SettleFetch ==
  /\ fetching.pc = "answered"
  /\ fetching' = [fetching EXCEPT !.pc = "settled"]
  /\ IF fetching.ok
       THEN /\ reports' = fetching.data
            /\ UNCHANGED pageError
       ELSE /\ pageError' = Some(<< "Could not get the list of reports" >>)
            /\ UNCHANGED reports
  /\ isLoading' = FALSE
  /\ UNCHANGED << isUploading, uploads, stored >>
  /\ UNCHANGED << engineVars, handlerVars, columnVars >>

\* A file given to processFile: waiting for its turn, or sent.
Upload(file, pc) == [file |-> file, pc |-> pc, saved |-> None]

\* handleFileChange with a non-empty list of files, up to the first await of
\* processFile; the input is disabled while isUploading.
handleFileChange(files) ==
  /\ ~isUploading
  /\ Len(files) > 0
  /\ IF Len(reports) + Len(files) > MAX_REPORTS
       THEN /\ pageError' = Some(<< "No more than 10 reports can be stored" >>)
            /\ UNCHANGED << isUploading, uploads >>
       ELSE /\ isUploading' = TRUE
            /\ pageError' = None
            /\ uploads' =
                 uploads \o [k \in 1..Len(files) |->
                               Upload(files[k],
                                      IF k = 1 THEN "sent" ELSE "waiting")]
  /\ UNCHANGED << reports, isLoading, fetching, stored >>
  /\ UNCHANGED << engineVars, handlerVars, columnVars >>

\* The function answers the POST of upload k: it stores a row and answers
\* with it, which the limit of the session allows below
\* MAX_REPORTS_PER_SESSION rows, or it answers with an error.
AnswerUpload(k) ==
  /\ uploads[k].pc = "sent"
  /\ \E failed \in BOOLEAN :
       IF failed
         THEN /\ uploads' = [uploads EXCEPT ![k].pc = "answered"]
              /\ UNCHANGED stored
         ELSE LET row == [id |-> Len(stored) + 1, file_name |-> uploads[k].file]
              IN  /\ Len(stored) < MAX_REPORTS_PER_SESSION
                  /\ stored' = Append(stored, row)
                  /\ uploads' = [uploads EXCEPT ![k].pc = "answered",
                                                ![k].saved = Some(mapReport(row))]
  /\ UNCHANGED << reports, isLoading, isUploading, pageError, fetching >>
  /\ UNCHANGED << engineVars, handlerVars, columnVars >>

\* processFile resumes for upload k after uploadSarifFile settled, and
\* handleFileChange goes on with the next file, in the same tick.
processFileResume(k) ==
  /\ uploads[k].pc = "answered"
  /\ reports' = IF IsSome(uploads[k].saved)
                  THEN << uploads[k].saved[1] >> \o reports
                  ELSE reports
  /\ IF k < Len(uploads) /\ uploads[k + 1].pc = "waiting"
       THEN /\ uploads' = [uploads EXCEPT ![k].pc = "done", ![k + 1].pc = "sent"]
            /\ isUploading' = TRUE
            /\ pageError' = None
       ELSE /\ uploads' = [uploads EXCEPT ![k].pc = "done"]
            /\ isUploading' = FALSE
            /\ pageError' = IF IsSome(uploads[k].saved)
                              THEN pageError
                              ELSE Some(<< "Could not upload the SARIF file" >>)
  /\ UNCHANGED << isLoading, fetching, stored >>
  /\ UNCHANGED << engineVars, handlerVars, columnVars >>

\* the files of one selection
MaxFiles == 2

NextReports ==
  \/ AnswerFetch
  \/ SettleFetch
  \/ \E files \in SeqsUpTo(FileNames, MaxFiles) :
       /\ Len(uploads) + Len(files) <= MaxUploads
       /\ handleFileChange(files)
  \/ \E k \in 1..Len(uploads) : AnswerUpload(k)
  \/ \E k \in 1..Len(uploads) : processFileResume(k)

\* The page is mounted for a session that has some rows, within the limit.
InitReports ==
  /\ input = JsUndefined
  /\ options = NoOptions
  /\ now = 0
  /\ first = None
  /\ second = None
  /\ rows = << >>
  /\ requests = << >>
  /\ NoColumns
  /\ reports = << >>
  /\ isLoading = TRUE
  /\ isUploading = FALSE
  /\ pageError = None
  /\ fetching = [pc |-> "sent", ok |-> FALSE, data |-> << >>]
  /\ uploads = << >>
  /\ \E n \in 0..MAX_REPORTS_PER_SESSION :
       stored = [k \in 1..n |-> [id |-> k, file_name |-> << "e" >>]]

SpecReports == InitReports /\ [][NextReports]_vars

\* C27: a report that processFile saved and prepended to reports is in
\* reports in every later state.
C27_SavedReportStays ==
  \A k \in 1..Len(uploads) :
    uploads[k].pc = "done" /\ IsSome(uploads[k].saved) =>
      \E i \in 1..Len(reports) : reports[i] = uploads[k].saved[1]


(***************************************************************************)
(* The columns of the table: toggleColumnVisibility and resetColumns.      *)
(***************************************************************************)
DEFAULT_VISIBLE_COLUMNS ==
  << "priority", "cvss", "severity", "type", "vector", "businessComponent",
     "ownerTeam", "occurrences", "status", "age", "source", "trend", "slsa",
     "riskFactors", "group" >>

\* type ColumnId
ColumnId ==
  { "priority", "cvss", "severity", "type", "vector", "businessComponent",
    "ownerTeam", "occurrences", "status", "age", "source", "trend", "slsa",
    "riskFactors", "group" }

\* prev.includes(columnId)
Includes(prev, columnId) == \E k \in 1..Len(prev) : prev[k] = columnId

\* toggleColumnVisibility with a slip: the last visible column can be hidden.
toggleColumnVisibilityOfAny(prev, columnId) ==
  IF Includes(prev, columnId)
    THEN SelectSeq(prev, LAMBDA item : item # columnId)
    ELSE Append(prev, columnId)

\* The updater toggleColumnVisibility gives to setVisibleColumns.
toggleColumnVisibility(prev, columnId) ==
  IF Includes(prev, columnId)
    THEN IF Len(prev) = 1
           THEN prev
           ELSE SelectSeq(prev, LAMBDA item : item # columnId)
    ELSE Append(prev, columnId)

\* the column actions of one behaviour
MaxColumnActions == 3

ToggleColumn(columnId) ==
  /\ Len(columnActions) < MaxColumnActions
  /\ visibleColumns' = toggleColumnVisibility(visibleColumns, columnId)
  /\ columnActions' = Append(columnActions,
                             [action |-> "toggleColumnVisibility",
                              columnId |-> columnId,
                              before |-> visibleColumns])
  /\ UNCHANGED << engineVars, handlerVars, reportVars >>

resetColumns ==
  /\ Len(columnActions) < MaxColumnActions
  /\ visibleColumns' = DEFAULT_VISIBLE_COLUMNS
  /\ columnActions' = Append(columnActions,
                             [action |-> "resetColumns",
                              columnId |-> "",
                              before |-> visibleColumns])
  /\ UNCHANGED << engineVars, handlerVars, reportVars >>

NextColumns ==
  \/ \E columnId \in ColumnId : ToggleColumn(columnId)
  \/ resetColumns

\* The page shows the default columns, or the first of them, the others
\* having been hidden one by one.
InitColumns ==
  /\ input = JsUndefined
  /\ options = NoOptions
  /\ now = 0
  /\ first = None
  /\ second = None
  /\ rows = << >>
  /\ requests = << >>
  /\ NoReports
  /\ \E n \in 1..Len(DEFAULT_VISIBLE_COLUMNS) :
       visibleColumns = SubSeq(DEFAULT_VISIBLE_COLUMNS, 1, n)
  /\ columnActions = << >>

SpecColumns == InitColumns /\ [][NextColumns]_vars

\* The columns of a list, as a set.
ColumnSet(columns) == { columns[k] : k \in 1..Len(columns) }

\* The visible columns action n of columnActions left.
ColumnsAfter(n) ==
  IF n = Len(columnActions) THEN visibleColumns ELSE columnActions[n + 1].before

\* C30: the set of visible columns is never empty; toggling the only visible
\* column leaves the state unchanged; toggling a column twice in a row
\* restores the set of visible columns.
C30_VisibleColumnsNeverEmpty ==
  /\ Len(visibleColumns) > 0
  /\ \A n \in 1..Len(columnActions) :
       LET done == columnActions[n]
       IN  /\ Len(done.before) > 0
           /\ ( /\ done.action = "toggleColumnVisibility"
                /\ done.before = << done.columnId >> )
              => ColumnsAfter(n) = done.before
           /\ ( /\ n < Len(columnActions)
                /\ done.action = "toggleColumnVisibility"
                /\ columnActions[n + 1].action = "toggleColumnVisibility"
                /\ columnActions[n + 1].columnId = done.columnId )
              => ColumnSet(ColumnsAfter(n + 1)) = ColumnSet(done.before)

\* C30 happens: the only visible column was toggled and stayed; then a
\* hidden column was toggled twice, shown and hidden again.
C30_Witness ==
  /\ Len(columnActions) = 3
  /\ columnActions[1].action = "toggleColumnVisibility"
  /\ columnActions[1].before = << columnActions[1].columnId >>
  /\ columnActions[2].action = "toggleColumnVisibility"
  /\ columnActions[2].columnId # columnActions[1].columnId
  /\ columnActions[3].action = "toggleColumnVisibility"
  /\ columnActions[3].columnId = columnActions[2].columnId
  /\ Len(columnActions[3].before) = 2
  /\ visibleColumns = columnActions[1].before

====
